---- MODULE Spec2Model ----
(***************************************************************************)
(* A model of the read-to-graph mapper of vg (src/src/mapper.cpp): the     *)
(* fragment-length model, the single-read multi-mapping entry point, the   *)
(* three paired-end strategies and the per-thread caches.                  *)
(*                                                                         *)
(* The external collaborators (suffix index, graph index, DP aligner) are  *)
(* not modelled: what they hand back to the mapper (candidate alignments,  *)
(* path positions) is drawn from small sets, and every step the mapper     *)
(* itself takes on those values is translated from the source.             *)
(***************************************************************************)
EXTENDS Integers, Sequences, FiniteSets, TLC

VARIABLES
    mapper,             \* the Mapper's persistent members (fragment model, retry queue)
    pc,                 \* "idle", or the operation whose result is in `ret`
    call,               \* the arguments of the operation that ran last
    ret,                \* what that operation handed back
    alignment_threads,  \* Mapper::alignment_threads
    cache_slots,        \* the sizes of node_cache, node_start_cache, node_pos_cache, edge_cache
    workers             \* the threads that are executing mapper code

callVars == <<pc, call, ret>>

ompVars == <<alignment_threads, cache_slots, workers>>

vars == <<mapper, pc, call, ret, alignment_threads, cache_slots, workers>>

\* no operation has run yet
NoCall == [op |-> "none"]

-----------------------------------------------------------------------------
(* Bounds of the model and configuration values.                           *)

\* fragment_length_cache_size: capacity of the three fragment deques
fragment_length_cache_size == 2
\* fragment_length_estimate_interval: samples between two re-estimations
fragment_length_estimate_interval == 2
\* fragment_max: the hard cap used while no model has been learned
fragment_max == 4
\* fragment_sigma (mapper.cpp:46)
fragment_sigma == 4
\* no more than this many samples are recorded in one behaviour
MaxRecorded == 7

-----------------------------------------------------------------------------
(* Small helpers.                                                          *)

Abs(x) == IF x < 0 THEN -x ELSE x

Min(a, b) == IF a < b THEN a ELSE b

Max(a, b) == IF a > b THEN a ELSE b

RECURSIVE SumSeq(_)
SumSeq(s) == IF s = <<>> THEN 0 ELSE Head(s) + SumSeq(Tail(s))

RECURSIVE SumSquares(_)
SumSquares(s) == IF s = <<>> THEN 0 ELSE Head(s) * Head(s) + SumSquares(Tail(s))

RECURSIVE CountTrue(_)
CountTrue(s) == IF s = <<>> THEN 0 ELSE (IF Head(s) THEN 1 ELSE 0) + CountTrue(Tail(s))

Isqrt(n) ==
    LET \* the integer part of the square root of n
        RECURSIVE IsqrtFrom(_, _)
        IsqrtFrom(k, r) == IF (r + 1) * (r + 1) > k THEN r ELSE IsqrtFrom(k, r + 1)
    IN
    IsqrtFrom(n, 0)

\* mutant: the pop_back() is left out
PushFrontUncapped(dq, x, cap) == <<x>> \o dq

\* deque.push_front(x) followed by pop_back() when the deque outgrew cap
PushFrontCapped(dq, x, cap) ==
    LET pushed == <<x>> \o dq
    IN  IF Len(pushed) > cap THEN SubSeq(pushed, 1, Len(pushed) - 1) ELSE pushed

-----------------------------------------------------------------------------
(* The fragment model.                                                     *)
(* Doubles are kept exact: the mean of the deque is the fraction num/den   *)
(* and its standard deviation is sqrt(rad)/den.                            *)

\* fragment_length_mean(): sum / size
fragment_length_mean(lengths) ==
    [num |-> SumSeq(lengths), den |-> Len(lengths)]

\* fragment_length_stdev(): stdev(fragment_lengths), the population standard
\* deviation sqrt(sum((x - mean)^2) / n) = sqrt(n * sum(x^2) - sum(x)^2) / n
fragment_length_stdev(lengths) ==
    [rad |-> Len(lengths) * SumSquares(lengths) - SumSeq(lengths) * SumSeq(lengths),
     den |-> Len(lengths)]

\* fragment_orientation(): majority vote, ties give false
fragment_orientation(orientations) ==
    CountTrue(orientations) > Len(orientations) - CountTrue(orientations)

\* fragment_direction(): majority vote, ties give false
fragment_direction(directions) ==
    CountTrue(directions) > Len(directions) - CountTrue(directions)

\* cached_fragment_length_mean + fragment_sigma * cached_fragment_length_stdev
\* as stored into the integer fragment_size: the integer part of
\* (num + fragment_sigma * sqrt(rad)) / den
FragmentSizeOf(mean, sd) ==
    (mean.num + Isqrt(fragment_sigma * fragment_sigma * sd.rad)) \div mean.den

\* the same_direction chain of record_fragment_configuration
SameDirection(length, aln1_is_rev) ==
    IF aln1_is_rev /\ length <= 0 THEN TRUE
    ELSE IF ~aln1_is_rev /\ length >= 0 THEN TRUE
    ELSE FALSE

\* the members the constructor initialises (mapper.cpp:26-62); n_recorded and
\* n_estimates are history: the calls of record_fragment_configuration so far
\* and how many of them re-estimated the model
InitMapper ==
    [max_multimaps                       |-> 1,
     max_attempts                        |-> 0,
     min_identity                        |-> 0,
     mem_chaining                        |-> FALSE,
     extra_multimaps                     |-> 100,
     simultaneous_pair_alignment         |-> TRUE,
     always_rescue                       |-> FALSE,
     fragment_size                       |-> 0,
     fragment_lengths                    |-> <<>>,
     fragment_orientations               |-> <<>>,
     fragment_directions                 |-> <<>>,
     cached_fragment_length_mean         |-> [num |-> 0, den |-> 1],
     cached_fragment_length_stdev        |-> [rad |-> 0, den |-> 1],
     cached_fragment_orientation         |-> FALSE,
     cached_fragment_direction           |-> TRUE,
     since_last_fragment_length_estimate |-> 0,
     imperfect_pairs_to_retry            |-> <<>>,
     n_recorded                          |-> 0,
     n_estimates                         |-> 0]

\* mutant: the counter is compared with >= so the estimate comes a sample early
RecordEstimatesEarly(m, length, aln1_is_rev, aln2_is_rev) ==
    LET orientations == PushFrontCapped(m.fragment_orientations,
                                        aln1_is_rev = aln2_is_rev,
                                        fragment_length_cache_size)
        directions   == PushFrontCapped(m.fragment_directions,
                                        SameDirection(length, aln1_is_rev),
                                        fragment_length_cache_size)
        lengths      == PushFrontCapped(m.fragment_lengths, Abs(length),
                                        fragment_length_cache_size)
        pushed == [m EXCEPT !.fragment_orientations = orientations,
                            !.fragment_directions = directions,
                            !.fragment_lengths = lengths,
                            !.n_recorded = @ + 1]
    IN  IF m.since_last_fragment_length_estimate + 1 >= fragment_length_estimate_interval
        THEN [pushed EXCEPT
                !.cached_fragment_length_mean = fragment_length_mean(lengths),
                !.cached_fragment_length_stdev = fragment_length_stdev(lengths),
                !.cached_fragment_orientation = fragment_orientation(orientations),
                !.cached_fragment_direction = fragment_direction(directions),
                !.fragment_size = FragmentSizeOf(fragment_length_mean(lengths),
                                                 fragment_length_stdev(lengths)),
                !.since_last_fragment_length_estimate = 1,
                !.n_estimates = @ + 1]
        ELSE [pushed EXCEPT !.since_last_fragment_length_estimate = @ + 1]

\* mutant: the model is estimated from the deque as it was before the push
RecordEstimatesStale(m, length, aln1_is_rev, aln2_is_rev) ==
    LET orientations == PushFrontCapped(m.fragment_orientations,
                                        aln1_is_rev = aln2_is_rev,
                                        fragment_length_cache_size)
        directions   == PushFrontCapped(m.fragment_directions,
                                        SameDirection(length, aln1_is_rev),
                                        fragment_length_cache_size)
        lengths      == PushFrontCapped(m.fragment_lengths, Abs(length),
                                        fragment_length_cache_size)
        old          == IF m.fragment_lengths = <<>> THEN lengths ELSE m.fragment_lengths
        pushed == [m EXCEPT !.fragment_orientations = orientations,
                            !.fragment_directions = directions,
                            !.fragment_lengths = lengths,
                            !.n_recorded = @ + 1]
    IN  IF m.since_last_fragment_length_estimate + 1 > fragment_length_estimate_interval
        THEN [pushed EXCEPT
                !.cached_fragment_length_mean = fragment_length_mean(old),
                !.cached_fragment_length_stdev = fragment_length_stdev(old),
                !.cached_fragment_orientation = fragment_orientation(orientations),
                !.cached_fragment_direction = fragment_direction(directions),
                !.fragment_size = FragmentSizeOf(fragment_length_mean(old),
                                                 fragment_length_stdev(old)),
                !.since_last_fragment_length_estimate = 1,
                !.n_estimates = @ + 1]
        ELSE [pushed EXCEPT !.since_last_fragment_length_estimate = @ + 1]

\* Mapper::record_fragment_configuration(length, aln1, aln2); of the two
\* alignments only the strand of the first mapping is read
record_fragment_configuration(m, length, aln1_is_rev, aln2_is_rev) ==
    LET orientations == PushFrontCapped(m.fragment_orientations,
                                        aln1_is_rev = aln2_is_rev,
                                        fragment_length_cache_size)
        directions   == PushFrontCapped(m.fragment_directions,
                                        SameDirection(length, aln1_is_rev),
                                        fragment_length_cache_size)
        lengths      == PushFrontCapped(m.fragment_lengths, Abs(length),
                                        fragment_length_cache_size)
        pushed == [m EXCEPT !.fragment_orientations = orientations,
                            !.fragment_directions = directions,
                            !.fragment_lengths = lengths,
                            !.n_recorded = @ + 1]
    IN  IF m.since_last_fragment_length_estimate + 1 > fragment_length_estimate_interval
        THEN [pushed EXCEPT
                !.cached_fragment_length_mean = fragment_length_mean(lengths),
                !.cached_fragment_length_stdev = fragment_length_stdev(lengths),
                !.cached_fragment_orientation = fragment_orientation(orientations),
                !.cached_fragment_direction = fragment_direction(directions),
                !.fragment_size = FragmentSizeOf(fragment_length_mean(lengths),
                                                 fragment_length_stdev(lengths)),
                !.since_last_fragment_length_estimate = 1,
                !.n_estimates = @ + 1]
        ELSE [pushed EXCEPT !.since_last_fragment_length_estimate = @ + 1]

-----------------------------------------------------------------------------
(* The per-thread caches.                                                  *)
(* A thread is named <<w, i>>: <<w, 0>> is worker w of the outer per-read  *)
(* team, <<w, i>> with i > 0 is the i-th thread of the team that worker w  *)
(* forked for the per-band loop of align_banded.                           *)

\* the largest team of per-read workers, and the largest alignment_threads
MaxThreads == 2

CacheKinds == {"node", "node_start", "node_pos", "edge"}

NoCache == [kind |-> "none", slot |-> 0]

\* init_node_cache, init_node_start_cache, init_node_pos_cache,
\* init_edge_cache: each vector is rebuilt with alignment_threads entries
init_caches(n) == [k \in CacheKinds |-> n]

\* worker w of the outer team: what it is doing, the size of the team it
\* forked for the per-band loop (0: none), and for each thread of that team
\* (index 0 is the worker itself) the cache instance it is using
IdleWorker == [phase |-> "idle", team |-> 0, using |-> [i \in 0..(MaxThreads - 1) |-> NoCache]]

\* omp_get_thread_num() of thread <<w, i>>: its number in the innermost
\* enclosing team, which is the per-band team while worker w is inside the
\* parallel per-band loop and the outer team otherwise
omp_get_thread_num(w, i) ==
    IF workers[w].team > 0 THEN i ELSE w

\* get_node_cache, get_node_start_cache, get_node_pos_cache, get_edge_cache:
\* int tid = cache.size() > 1 ? omp_get_thread_num() : 0; return *cache[tid]
get_cache(kind, thread_num) ==
    [kind |-> kind,
     slot |-> IF cache_slots[kind] > 1 THEN thread_num ELSE 0]

\* Mapper::set_alignment_threads, called between batches
SetAlignmentThreads(n) ==
    /\ \A w \in DOMAIN workers : workers[w].phase = "idle"
    /\ alignment_threads' = n
    /\ cache_slots' = init_caches(n)
    /\ UNCHANGED <<workers, mapper, callVars>>

\* the outer batch loop hands a read to worker w of a team of
\* alignment_threads workers
StartRead(w) ==
    /\ w < alignment_threads
    /\ workers[w].phase = "idle"
    /\ workers' = [workers EXCEPT ![w].phase = "read"]
    /\ UNCHANGED <<alignment_threads, cache_slots, mapper, callVars>>

\* thread <<w, i>> calls one of the four getters and works on what it returns
UseCache(w, i, kind) ==
    /\ workers[w].phase # "idle"
    /\ i = 0 \/ i < workers[w].team
    /\ workers' = [workers EXCEPT
                     ![w].using[i] = get_cache(kind, omp_get_thread_num(w, i))]
    /\ UNCHANGED <<alignment_threads, cache_slots, mapper, callVars>>

\* align_banded: with alignment_threads > 1 the per-band loop is an
\* omp parallel for; the runtime gives it a team of n threads (1 when nested
\* parallelism is off), numbered from 0, the encountering worker being 0
EnterBandedLoop(w, n) ==
    /\ workers[w].phase = "read"
    /\ alignment_threads > 1
    /\ n <= alignment_threads
    /\ workers' = [workers EXCEPT ![w].phase = "banded", ![w].team = n]
    /\ UNCHANGED <<alignment_threads, cache_slots, mapper, callVars>>

\* the per-band loop ends: the team joins and its threads are gone
LeaveBandedLoop(w) ==
    /\ workers[w].phase = "banded"
    /\ workers' = [workers EXCEPT
                     ![w].phase = "read",
                     ![w].team = 0,
                     ![w].using = [i \in 0..(MaxThreads - 1) |-> NoCache]]
    /\ UNCHANGED <<alignment_threads, cache_slots, mapper, callVars>>

\* worker w is done with its read
FinishRead(w) ==
    /\ workers[w].phase = "read"
    /\ workers' = [workers EXCEPT ![w] = IdleWorker]
    /\ UNCHANGED <<alignment_threads, cache_slots, mapper, callVars>>

NextOmp ==
    \/ \E n \in 1..MaxThreads : SetAlignmentThreads(n)
    \/ \E w \in 0..(MaxThreads - 1) : StartRead(w)
    \/ \E w \in 0..(MaxThreads - 1), i \in 0..(MaxThreads - 1), kind \in CacheKinds :
          UseCache(w, i, kind)
    \/ \E w \in 0..(MaxThreads - 1), n \in 1..MaxThreads : EnterBandedLoop(w, n)
    \/ \E w \in 0..(MaxThreads - 1) : LeaveBandedLoop(w)
    \/ \E w \in 0..(MaxThreads - 1) : FinishRead(w)

\* the state after construction: no call is in progress, and
\* alignment_threads(1) with the four init_*_cache calls
Init ==
    /\ mapper = InitMapper
    /\ pc = "idle"
    /\ call = NoCall
    /\ ret = <<>>
    /\ alignment_threads = 1
    /\ cache_slots = init_caches(1)
    /\ workers = [w \in 0..(MaxThreads - 1) |-> IdleWorker]

SpecOmp == Init /\ [][NextOmp]_vars

\* C10: no two threads that execute mapper code at the same time work on the
\* same cache instance obtained from the per-thread getters.
C10_CachesNeverShared ==
    LET \* the threads that are executing mapper code
        RunningThreads ==
            {t \in (0..(MaxThreads - 1)) \X (0..(MaxThreads - 1)) :
                /\ workers[t[1]].phase # "idle"
                /\ t[2] = 0 \/ t[2] < workers[t[1]].team}
    IN  \A t1 \in RunningThreads, t2 \in RunningThreads :
            t1 # t2 =>
                \/ workers[t1[1]].using[t1[2]] = NoCache
                \/ workers[t1[1]].using[t1[2]] # workers[t2[1]].using[t2[2]]

-----------------------------------------------------------------------------
(* SpecFrag: any sequence of record_fragment_configuration calls.          *)

Record(length, aln1_is_rev, aln2_is_rev) ==
    /\ mapper.n_recorded < MaxRecorded
    /\ mapper' = record_fragment_configuration(mapper, length, aln1_is_rev, aln2_is_rev)
    /\ call' = [op |-> "record", length |-> length,
                aln1_is_rev |-> aln1_is_rev, aln2_is_rev |-> aln2_is_rev]
    /\ UNCHANGED <<pc, ret>>
    /\ UNCHANGED ompVars

NextFrag ==
    \E length \in {-3, 0, 2}, aln1_is_rev \in BOOLEAN, aln2_is_rev \in BOOLEAN :
        Record(length, aln1_is_rev, aln2_is_rev)

SpecFrag == Init /\ [][NextFrag]_vars

\* C8: fragment_size is 0 until a pair has been recorded, and every
\* re-estimation leaves fragment_size at mean + fragment_sigma * stdev of the
\* fragment lengths the deque holds right after that record call.
C8_FragmentSizeFormula ==
    [][ /\ (mapper.n_recorded = 0 => mapper.fragment_size = 0)
        /\ (mapper'.n_estimates = mapper.n_estimates + 1 =>
              mapper'.fragment_size =
                  FragmentSizeOf(fragment_length_mean(mapper'.fragment_lengths),
                                 fragment_length_stdev(mapper'.fragment_lengths))) ]_vars

\* witness of C8: a re-estimation over a deque with two different lengths
\* (a non-zero standard deviation) has set a non-zero fragment_size
C8_Witness ==
    /\ mapper.n_estimates >= 1
    /\ mapper.since_last_fragment_length_estimate = 1
    /\ Len(mapper.fragment_lengths) = 2
    /\ mapper.fragment_lengths[1] # mapper.fragment_lengths[2]
    /\ mapper.cached_fragment_length_stdev.rad > 0
    /\ mapper.fragment_size > 0

\* C9 as stated: the k-th re-estimation happens on recorded sample
\* k * fragment_length_estimate_interval.
C9_EstimateEveryIntervalFromFirst ==
    mapper.n_estimates = mapper.n_recorded \div fragment_length_estimate_interval

\* C9 amended: the k-th re-estimation happens on recorded sample
\* k * fragment_length_estimate_interval + 1: the first one needs one sample
\* more than the interval, the later ones are an interval apart.
C9_EstimateOneAfterInterval ==
    mapper.n_estimates =
        IF mapper.n_recorded = 0 THEN 0
        ELSE (mapper.n_recorded - 1) \div fragment_length_estimate_interval

\* witness of C9: the second re-estimation has just happened
C9_Witness ==
    /\ mapper.n_estimates = 2
    /\ mapper.n_recorded = 2 * fragment_length_estimate_interval + 1
    /\ mapper.since_last_fragment_length_estimate = 1


-----------------------------------------------------------------------------
(* Alignments.                                                             *)
(* A sequence is kept as its length.  A path is kept as the sum of the     *)
(* to_length of its edits, its first and last position, its strand, its    *)
(* number of edits, and the reference paths it touches with its mean       *)
(* position on each.  Identity is kept in percent.                         *)

NoRef == [p \in {} |-> 0]

EmptyPath ==
    [to_length |-> 0, pos |-> 0, end |-> 0, is_reverse |-> FALSE,
     edits |-> 0, ref |-> NoRef]

has_path(aln) == aln.path # EmptyPath

edit_count(aln) == aln.path.edits

\* a read as the caller hands it over; a read that is being realigned comes
\* with the path, score, identity, flags and links of its earlier alignment
Read(name, length, realigned) ==
    [name             |-> name,
     sequence         |-> length,
     path             |-> IF realigned
                          THEN [to_length |-> length, pos |-> 3, end |-> 3 + length,
                                is_reverse |-> FALSE, edits |-> 1, ref |-> NoRef]
                          ELSE EmptyPath,
     score            |-> IF realigned THEN 3 ELSE 0,
     identity         |-> IF realigned THEN 100 ELSE 0,
     mapping_quality  |-> IF realigned THEN 60 ELSE 0,
     is_secondary     |-> realigned,
     fragment_prev    |-> IF realigned THEN "old" ELSE "",
     fragment_next    |-> IF realigned THEN "old" ELSE "",
     fragment         |-> <<>>]

\* what the aligner makes of one candidate subgraph: the base alignment with
\* the path, score and identity of the hit; a hit of score 0 is no alignment
Aligned(base, hit) ==
    IF hit.score = 0
    THEN [base EXCEPT !.path = EmptyPath, !.score = 0, !.identity = 0]
    ELSE [base EXCEPT
            !.path = [to_length |-> base.sequence, pos |-> hit.pos,
                      end |-> hit.pos + base.sequence - 1,
                      is_reverse |-> hit.is_reverse, edits |-> hit.edits,
                      ref |-> hit.ref],
            !.score = hit.score,
            !.identity = hit.identity]

Hit(score, edits, pos, identity) ==
    [score |-> score, edits |-> edits, pos |-> pos, identity |-> identity,
     is_reverse |-> FALSE, ref |-> NoRef]

\* the candidates the seeds of a read can lead to, best cluster first or not
Hits ==
    {Hit(0, 0, 0, 0), Hit(2, 1, 1, 100), Hit(2, 2, 5, 90), Hit(1, 1, 7, 90)}

\* no more than this many candidate subgraphs per read
MaxHits == 2

HitLists == UNION {[1..n -> Hits] : n \in 0..MaxHits}

Prefix(s, n) == SubSeq(s, 1, Min(Len(s), n))

RECURSIVE SelectSeqBy(_, _)
SelectSeqBy(s, keep) ==
    IF s = <<>> THEN <<>>
    ELSE (IF keep[1] THEN <<Head(s)>> ELSE <<>>)
             \o SelectSeqBy(Tail(s), Tail(keep))

Orders(n) == {f \in [1..n -> 1..n] : \A i, j \in 1..n : i # j => f[i] # f[j]}

\* std::sort: every arrangement that the comparator accepts (the order of
\* equivalent elements is unspecified)
std_sort(alns) ==
    LET \* the comparator of the std::sort in mems_pos_clusters_to_alignments
        ScoreThenEditsBefore(a1, a2) ==
            \/ a1.score > a2.score
            \/ a1.score = a2.score /\ edit_count(a1) > edit_count(a2)
    IN
    {s \in {[i \in 1..Len(alns) |-> alns[f[i]]] : f \in Orders(Len(alns))} :
        \A i, j \in 1..Len(s) : i < j => ~ScoreThenEditsBefore(s[j], s[i])}

\* std::unique: of each run of consecutive duplicates the first is kept
RECURSIVE std_unique(_)
std_unique(alns) ==
    LET \* the predicate of the std::unique in mems_pos_clusters_to_alignments
        LikelyDuplicate(aln1, aln2) ==
            /\ aln1.score = aln2.score
            /\ aln1.score = 0 \/ aln1.path.pos = aln2.path.pos
    IN
    IF Len(alns) <= 1 THEN alns
    ELSE LET rest == std_unique(Tail(alns))
         IN  IF LikelyDuplicate(Head(alns), Head(Tail(alns)))
             THEN <<Head(alns)>> \o Tail(rest)
             ELSE <<Head(alns)>> \o rest

\* mems_pos_clusters_to_alignments: one candidate per cluster up to
\* total_multimaps, kept when its identity exceeds min_identity, then sorted
\* and made unique; the set of lists it can return
mems_pos_clusters_to_alignments(m, aln, hits, additional_multimaps) ==
    LET total_multimaps == m.max_multimaps + additional_multimaps
        tried == Prefix(hits, total_multimaps)
        candidates == [i \in 1..Len(tried) |-> Aligned(aln, tried[i])]
        alns == SelectSeqBy(candidates,
                            [i \in 1..Len(tried) |->
                                candidates[i].identity > m.min_identity])
    IN  {std_unique(s) : s \in std_sort(alns)}

\* mems_id_clusters_to_alignments: one alignment per ranked cluster, in the
\* order of the clusters, up to max(max_attempts, total_multimaps) clusters
mems_id_clusters_to_alignments(m, alignment, hits, additional_multimaps) ==
    LET total_multimaps == m.max_multimaps + additional_multimaps
        aln_fw == [alignment EXCEPT !.path = EmptyPath, !.score = 0]
        tried == Prefix(hits, Max(m.max_attempts, total_multimaps))
    IN  {[i \in 1..Len(tried) |-> Aligned(aln_fw, tried[i])]}

align_mem_multi(m, alignment, hits, additional_multimaps) ==
    IF m.mem_chaining
    THEN mems_pos_clusters_to_alignments(m, alignment, hits, additional_multimaps)
    ELSE mems_id_clusters_to_alignments(m, alignment, hits, additional_multimaps)

\* align_multi_kmers: the attempt loop runs while nothing was found and
\* attempt < max_attempts; what the threaded aligner found is returned as is
align_multi_kmers(m, aln, hits) ==
    IF aln.identity > m.min_identity \/ ~(0 < m.max_attempts)
    THEN {<<>>}
    ELSE {[i \in 1..Len(hits) |-> Aligned(aln, hits[i])]}


\* the values the aligner's mapping quality estimate is drawn from
MappingQualities == {0, 60}

\* compute_mapping_qualities: the aligner writes its estimate into the first
\* alignment of a non-empty list; the set of lists that can come out
compute_mapping_qualities(alns) ==
    IF alns = <<>> THEN {alns}
    ELSE {[alns EXCEPT ![1].mapping_quality = q] : q \in MappingQualities}

\* the alignments of s in their order, each distinct one once
RECURSIVE FirstOccurrences(_, _)
FirstOccurrences(s, used) ==
    IF s = <<>> THEN <<>>
    ELSE IF Head(s) \in used THEN FirstOccurrences(Tail(s), used)
    ELSE <<Head(s)>> \o FirstOccurrences(Tail(s), used \cup {Head(s)})

\* the loop over alignment_by_score from its highest key down; the set of
\* pointers of one score is walked in the order of the vector
RECURSIVE DescendingScoreGroups(_, _)
DescendingScoreGroups(all_alns, scores) ==
    IF scores = {} THEN <<>>
    ELSE LET top == CHOOSE x \in scores : \A y \in scores : y <= x
         IN  FirstOccurrences(SelectSeq(all_alns, LAMBDA a : a.score = top), {})
                 \o DescendingScoreGroups(all_alns, scores \ {top})

\* mutant: the alignments of one score come out in the reverse of their order
ScoreSortReversingTies(all_alns, original_alignment) ==
    IF Len(all_alns) = 0
    THEN <<[original_alignment EXCEPT !.path = EmptyPath, !.score = 0]>>
    ELSE DescendingScoreGroups([i \in 1..Len(all_alns) |-> all_alns[Len(all_alns) + 1 - i]],
                               {all_alns[i].score : i \in 1..Len(all_alns)})

score_sort_and_deduplicate_alignments(all_alns, original_alignment) ==
    IF Len(all_alns) = 0
    THEN <<[original_alignment EXCEPT !.path = EmptyPath, !.score = 0]>>
    ELSE DescendingScoreGroups(all_alns,
                               {all_alns[i].score : i \in 1..Len(all_alns)})

\* mutant: nothing is marked, the alignments keep the flag of the read
FilterWithoutMarking(m, sorted_unique_alignments, additional_multimaps) ==
    LET total_multimaps == m.max_multimaps + additional_multimaps
    IN  IF Len(sorted_unique_alignments) > total_multimaps
        THEN SubSeq(sorted_unique_alignments, 1, total_multimaps)
        ELSE sorted_unique_alignments

filter_and_process_multimaps(m, sorted_unique_alignments, additional_multimaps) ==
    LET total_multimaps == m.max_multimaps + additional_multimaps
        resized == IF Len(sorted_unique_alignments) > total_multimaps
                   THEN SubSeq(sorted_unique_alignments, 1, total_multimaps)
                   ELSE sorted_unique_alignments
    IN  [i \in 1..Len(resized) |-> [resized[i] EXCEPT !.is_secondary = (i > 1)]]

\* align_multi_internal for a read that is not longer than band_width
\* (mapper.cpp:3330-3396); the set of lists it can return
align_multi_internal_short(m, compute_unpaired_quality, aln, kmer_size, hits, additional_multimaps) ==
    LET additional_multimaps_for_quality ==
            IF additional_multimaps = 0 /\ m.max_multimaps = 1
            THEN 1 ELSE additional_multimaps
        found == IF kmer_size # 0
                 THEN align_multi_kmers(m, aln, hits)
                 ELSE align_mem_multi(m, aln, hits, additional_multimaps_for_quality)
    IN  UNION {
          LET alignments == score_sort_and_deduplicate_alignments(f, aln)
          IN  IF compute_unpaired_quality
              THEN {filter_and_process_multimaps(m, q, 0) :
                        q \in compute_mapping_qualities(alignments)}
              ELSE {filter_and_process_multimaps(m, alignments, additional_multimaps)}
          : f \in found}


\* Mapper::align on the list align_multi returned: the best alignment, or the
\* read without path and score when the list is empty
BestOrFailed(aln, best) ==
    IF Len(best) = 0
    THEN [aln EXCEPT !.path = EmptyPath, !.score = 0]
    ELSE best[1]

\* Mapper::align for a read that is not longer than band_width
align_short(m, aln, kmer_size, hits) ==
    {BestOrFailed(aln, best) :
        best \in align_multi_internal_short(m, TRUE, aln, kmer_size, hits,
                                            m.extra_multimaps)}

-----------------------------------------------------------------------------
(* The banded split aligner.                                               *)

RoundUpTo4(n) == IF n % 4 # 0 THEN n - (n % 4) + 4 ELSE n

\* the loop left out: div stays 2
BandDivAlwaysTwo(size, band_width, div) == div

\* int div = 2; while (size / div > band_width) ++div;
RECURSIVE BandDiv(_, _, _)
BandDiv(size, band_width, div) ==
    IF size \div div > band_width THEN BandDiv(size, band_width, div + 1) ELSE div

\* the bands of align_banded (mapper.cpp:2867-2901): for each of the
\* 2 * div - 1 bands where its sequence starts in the read (off), the length
\* of its sequence and what is stripped from its start (first) and its end
\* (second); a negative second stands for the size_t it wraps to
BandLayout(size, band_width) ==
    LET \* the length of sequence.substr(off, n)
        SubstrLen(sz, off, n) == Min(n, sz - off)
        div == BandDiv(size, band_width, 2)
        segment_size == RoundUpTo4(size \div div)
        last_off == size - segment_size
        Even(i) ==
            LET off == i * segment_size
                addl_seq == IF i + 1 = div /\ off > last_off THEN off - last_off ELSE 0
            IN  [off |-> IF i + 1 = div /\ off > last_off THEN last_off ELSE off,
                 length |-> IF i + 1 = div
                            THEN (IF off > last_off THEN size - last_off ELSE size - off)
                            ELSE SubstrLen(size, off, segment_size),
                 first  |-> IF i = 0 THEN 0 ELSE segment_size \div 4 + addl_seq,
                 second |-> IF i + 1 = div THEN 0 ELSE segment_size \div 4]
        Odd(i) ==
            LET off == i * segment_size
                length == SubstrLen(size, off + segment_size \div 2, segment_size)
            IN  [off |-> off + segment_size \div 2,
                 length |-> length,
                 first  |-> segment_size \div 4,
                 second |-> segment_size \div 4 - (segment_size - length)]
    IN  [idx \in 1..(2 * div - 1) |->
            IF (idx - 1) % 2 = 0 THEN Even((idx - 1) \div 2) ELSE Odd((idx - 1) \div 2)]

\* strip_from_start: the first drop bases leave the sequence and the path
strip_from_start(aln, drop) ==
    IF drop = 0 THEN aln
    ELSE [aln EXCEPT
            !.sequence = Max(0, @ - drop),
            !.path = IF has_path(aln)
                     THEN [@ EXCEPT !.to_length = Max(0, @ - drop),
                                    !.pos = @ + drop]
                     ELSE @]

\* strip_from_end: the last drop bases leave the sequence and the path
strip_from_end(aln, drop) ==
    IF drop = 0 THEN aln
    ELSE [aln EXCEPT
            !.sequence = Max(0, @ - drop),
            !.path = IF has_path(aln)
                     THEN [@ EXCEPT !.to_length = Max(0, @ - drop),
                                    !.end = @ - drop]
                     ELSE @]

\* merge_alignments: a new alignment whose sequence and path are the
\* concatenation of the sequences and paths of the bands
merge_alignments(alns) ==
    LET mapped == SelectSeq(alns, has_path)
    IN  [name             |-> "",
         sequence         |-> SumSeq([i \in 1..Len(alns) |-> alns[i].sequence]),
         path             |-> IF mapped = <<>> THEN EmptyPath
                              ELSE [to_length  |-> SumSeq([i \in 1..Len(mapped) |-> mapped[i].path.to_length]),
                                    pos        |-> mapped[1].path.pos,
                                    end        |-> mapped[Len(mapped)].path.end,
                                    is_reverse |-> mapped[1].path.is_reverse,
                                    edits      |-> SumSeq([i \in 1..Len(mapped) |-> edit_count(mapped[i])]),
                                    ref        |-> NoRef],
         score            |-> 0,
         identity         |-> 0,
         mapping_quality  |-> 0,
         is_secondary     |-> FALSE,
         fragment_prev    |-> "",
         fragment_next    |-> "",
         fragment         |-> <<>>]

\* every way to pick one element from each set of a sequence of sets
RECURSIVE OneOfEach(_)
OneOfEach(sets) ==
    IF sets = <<>> THEN {<<>>}
    ELSE {<<x>> \o rest : x \in Head(sets), rest \in OneOfEach(Tail(sets))}


\* adjacent_positions on a linear stretch of the graph: the same node with
\* the offset differing by one
adjacent_positions(pos1, pos2) == pos1 = pos2 - 1

\* the first entry with the highest score (best_prev, best_last)
FirstBest(row) ==
    CHOOSE j \in 1..Len(row) :
        /\ \A k \in 1..Len(row) : row[k].score <= row[j].score
        /\ \A k \in 1..(j - 1) : row[k].score < row[j].score

\* the scores of band i in resolve_banded_multi: for each of its alignments
\* the score of the best traversal ending in it and the entry of the
\* previous band it continues
RECURSIVE BandScores(_, _)
BandScores(multi_alns, i) ==
    LET \* the last entry of score 0, the first entry when there is none (unmapped_idx)
        LastUnmapped(row) ==
            LET zeros == {j \in 1..Len(row) : row[j].score = 0}
            IN  IF zeros = {} THEN 1 ELSE CHOOSE j \in zeros : \A k \in zeros : k <= j
    IN
    IF i = 1
    THEN [c \in 1..Len(multi_alns[1]) |->
            [score |-> multi_alns[1][c].score, parent |-> 1]]
    ELSE
    LET prev_scores == BandScores(multi_alns, i - 1)
        prev_alns == multi_alns[i - 1]
        curr_alns == multi_alns[i]
        best_idx == FirstBest(prev_scores)
        unmapped_idx == LastUnmapped(prev_scores)
        \* k is advanced only past the mapped alignments of the previous band
        K(j) == 1 + Cardinality({x \in 1..(j - 1) : prev_alns[x].score # 0})
        Entry(aln) ==
            IF aln.score = 0
            THEN [score |-> prev_scores[best_idx].score, parent |-> best_idx]
            ELSE
            LET candidates ==
                    {j \in 1..Len(prev_alns) :
                        /\ prev_alns[j].score # 0
                        /\ adjacent_positions(prev_alns[j].path.end, aln.path.pos)}
            IN  IF candidates # {}
                THEN LET opt == CHOOSE j \in candidates :
                                   /\ \A k \in candidates :
                                         prev_scores[k].score <= prev_scores[j].score
                                   /\ \A k \in candidates :
                                         k < j => prev_scores[k].score < prev_scores[j].score
                     IN  [score |-> prev_scores[opt].score + aln.score,
                          parent |-> K(opt)]
                ELSE IF has_path(prev_alns[best_idx])
                THEN [score |-> prev_scores[best_idx].score, parent |-> best_idx]
                ELSE [score |-> prev_scores[unmapped_idx].score, parent |-> unmapped_idx]
    IN  [c \in 1..Len(curr_alns) |-> Entry(curr_alns[c])]

\* the entry of band i on the traceback from the best entry of the last band
RECURSIVE TracebackIdx(_, _)
TracebackIdx(multi_alns, i) ==
    IF i = Len(multi_alns)
    THEN FirstBest(BandScores(multi_alns, i))
    ELSE BandScores(multi_alns, i + 1)[TracebackIdx(multi_alns, i + 1)].parent

resolve_banded_multi(multi_alns) ==
    [i \in 1..Len(multi_alns) |-> multi_alns[i][TracebackIdx(multi_alns, i)]]

\* align_banded; band_hits[i] are the candidates of band i; the set of
\* alignments it can return
align_banded(m, read, kmer_size, band_width_arg, band_hits) ==
    LET band_width == RoundUpTo4(band_width_arg)
        layout == BandLayout(read.sequence, band_width)
        to_align == Len(layout)
        bands == [i \in 1..to_align |-> [read EXCEPT !.sequence = layout[i].length]]
        Strip(aln, i) ==
            strip_from_end(strip_from_start(aln, layout[i].first), layout[i].second)
        Thresholded(aln, i) ==
            IF aln.identity >= m.min_identity THEN aln ELSE bands[i]
        Multi(i) ==
            {[a \in 1..(Len(malns) + 1) |->
                Strip(Thresholded((malns \o <<bands[i]>>)[a], i), i)] :
             malns \in align_multi_internal_short(m, FALSE, bands[i], kmer_size,
                                                  band_hits[i], m.extra_multimaps)}
        Single(i) ==
            {Strip(Thresholded(aln, i), i) :
             aln \in align_short(m, bands[i], kmer_size, band_hits[i])}
        resolved ==
            IF m.max_multimaps > 1
            THEN {resolve_banded_multi(multi_alns) :
                    multi_alns \in OneOfEach([i \in 1..to_align |-> Multi(i)])}
            ELSE OneOfEach([i \in 1..to_align |-> Single(i)])
        \* score_alignment and identity of a merged alignment, from what its
        \* bands contributed
        MergedScore(parts) ==
            LET mapped == SelectSeq(parts, has_path)
            IN  SumSeq([i \in 1..Len(mapped) |-> mapped[i].score])
        MergedIdentity(parts) ==
            LET mapped == SelectSeq(parts, has_path)
                total == SumSeq([i \in 1..Len(mapped) |-> mapped[i].path.to_length])
            IN  IF total = 0 THEN 0
                ELSE SumSeq([i \in 1..Len(mapped) |->
                               mapped[i].identity * mapped[i].path.to_length]) \div total
    IN  {[merge_alignments(alns) EXCEPT
            !.score = MergedScore(alns),
            !.identity = MergedIdentity(alns),
            !.name = read.name] : alns \in resolved}

\* assert(read.sequence().size() > band_width) in align_banded
BandedAssertHolds(aln, band_width) ==
    aln.sequence > band_width => aln.sequence > RoundUpTo4(band_width)

align_multi_internal(m, compute_unpaired_quality, aln, kmer_size, band_width, hits, band_hits, additional_multimaps) ==
    IF aln.sequence > band_width
    THEN {<<banded>> : banded \in align_banded(m, aln, kmer_size, band_width, band_hits)}
    ELSE align_multi_internal_short(m, compute_unpaired_quality, aln, kmer_size,
                                    hits, additional_multimaps)

align_multi(m, aln, kmer_size, band_width, hits, band_hits) ==
    align_multi_internal(m, TRUE, aln, kmer_size, band_width, hits, band_hits,
                         m.extra_multimaps)

\* Mapper::align(const Alignment&, ...)
align(m, aln, kmer_size, band_width, hits, band_hits) ==
    {BestOrFailed(aln, best) :
        best \in align_multi(m, aln, kmer_size, band_width, hits, band_hits)}


-----------------------------------------------------------------------------
(* SpecMulti: the caller sets the mapper's options and calls align_multi   *)
(* and align on short and long reads, fresh or being realigned.            *)

\* the values of the band_width argument
BandWidths == {6, 8}

\* the lengths of a read that fits in one band and of one that does not
ShortReadLength == 4

LongReadLength == 12

\* the largest max_multimaps the caller configures
MaxMultimaps == 2

ShortReads == {Read("r1", ShortReadLength, realigned) : realigned \in BOOLEAN}

LongReads == {Read("r1", LongReadLength, realigned) : realigned \in BOOLEAN}

\* the candidates of the bands of a long read: at most one per band
BandHitLists(length, band_width) ==
    [1..Len(BandLayout(length, RoundUpTo4(band_width))) ->
        UNION {[1..n -> Hits] : n \in 0..1}]

\* the caller assigns the public option members
Configure(max_multimaps, mem_chaining, max_attempts, min_identity, extra_multimaps) ==
    /\ pc = "idle"
    /\ mapper' = [mapper EXCEPT !.max_multimaps = max_multimaps,
                                !.mem_chaining = mem_chaining,
                                !.max_attempts = max_attempts,
                                !.min_identity = min_identity,
                                !.extra_multimaps = extra_multimaps]
    /\ UNCHANGED <<callVars, ompVars>>

AlignMulti(read, kmer_size, band_width, hits, band_hits) ==
    /\ pc = "idle"
    /\ BandedAssertHolds(read, band_width)
    /\ \E result \in align_multi(mapper, read, kmer_size, band_width, hits, band_hits) :
          /\ pc' = "align_multi"
          /\ call' = [op |-> "align_multi", read |-> read, kmer_size |-> kmer_size,
                      band_width |-> band_width]
          /\ ret' = result
    /\ UNCHANGED <<mapper, ompVars>>

Align(read, kmer_size, band_width, hits, band_hits) ==
    /\ pc = "idle"
    /\ BandedAssertHolds(read, band_width)
    /\ \E result \in align(mapper, read, kmer_size, band_width, hits, band_hits) :
          /\ pc' = "align"
          /\ call' = [op |-> "align", read |-> read, kmer_size |-> kmer_size,
                      band_width |-> band_width]
          /\ ret' = <<result>>
    /\ UNCHANGED <<mapper, ompVars>>

\* the caller takes the result
Return ==
    /\ pc # "idle"
    /\ pc' = "idle"
    /\ call' = NoCall
    /\ ret' = <<>>
    /\ UNCHANGED <<mapper, ompVars>>

NextMulti ==
    \/ \E max_multimaps \in 0..MaxMultimaps, mem_chaining \in BOOLEAN,
          max_attempts \in {0, 1}, min_identity \in {0, 95},
          extra_multimaps \in {1, 100} :
          Configure(max_multimaps, mem_chaining, max_attempts, min_identity,
                    extra_multimaps)
    \/ \E read \in ShortReads, kmer_size \in {0, 1}, band_width \in BandWidths,
          hits \in HitLists :
          \/ AlignMulti(read, kmer_size, band_width, hits, <<>>)
          \/ Align(read, kmer_size, band_width, hits, <<>>)
    \/ \E read \in LongReads, kmer_size \in {0, 1}, band_width \in BandWidths :
          \E band_hits \in BandHitLists(read.sequence, band_width) :
              \/ AlignMulti(read, kmer_size, band_width, <<>>, band_hits)
              \/ Align(read, kmer_size, band_width, <<>>, band_hits)
    \/ Return

SpecMulti == Init /\ [][NextMulti]_vars

IsPrimaryThenSecondary(alns) ==
    /\ Len(alns) > 0
    /\ alns[1].is_secondary = FALSE
    /\ \A i \in 2..Len(alns) : alns[i].is_secondary = TRUE

\* C3 as stated: align_multi returns a non-empty list whose first element is
\* primary and whose later elements are secondary, for every read and every
\* configured max_multimaps.
C3_PrimaryThenSecondary ==
    pc = "align_multi" => IsPrimaryThenSecondary(ret)

\* C3 amended: align_multi returns a non-empty list whose first element is
\* primary and whose later elements are secondary, for every read, whenever
\* max_multimaps is at least 1.
C3_PrimaryThenSecondaryWhenPositive ==
    (pc = "align_multi" /\ mapper.max_multimaps >= 1) => IsPrimaryThenSecondary(ret)

\* a read that was a secondary alignment is realigned and gets two alignments
C3_Witness ==
    /\ pc = "align_multi"
    /\ mapper.max_multimaps >= 1
    /\ call.read.is_secondary
    /\ Len(ret) = 2
    /\ ~ret[1].is_secondary
    /\ ret[2].is_secondary

IsDescendingScore(alns) ==
    \A i, j \in 1..Len(alns) : i < j => alns[i].score >= alns[j].score

MoreEditsFirstAmongEqualScore(alns) ==
    \A i, j \in 1..Len(alns) :
        (i < j /\ alns[i].score = alns[j].score) =>
            edit_count(alns[i]) >= edit_count(alns[j])

\* C4 as stated: the list align_multi returns is sorted by descending score
\* and, among alignments of equal score, more edit operations come first.
C4_SortedByScoreThenEdits ==
    pc = "align_multi" =>
        IsDescendingScore(ret) /\ MoreEditsFirstAmongEqualScore(ret)

\* C4 amended: the list align_multi returns is sorted by descending score;
\* among alignments of equal score more edit operations come first when the
\* candidates came from the chained MEM clusters (mem_chaining set and
\* kmer_size 0).
C4_SortedByScoreEditsWhenChaining ==
    pc = "align_multi" =>
        /\ IsDescendingScore(ret)
        /\ (mapper.mem_chaining /\ call.kmer_size = 0) =>
              MoreEditsFirstAmongEqualScore(ret)

\* two chained candidates of equal score came back, more edits first
C4_Witness ==
    /\ pc = "align_multi"
    /\ mapper.mem_chaining
    /\ call.kmer_size = 0
    /\ Len(ret) = 2
    /\ ret[1].score = ret[2].score
    /\ edit_count(ret[1]) > edit_count(ret[2])

\* C5: in every alignment that align or align_multi returns, the to_length
\* of the edits of the path sum to the length of the sequence.
C5_ToLengthCoversSequence ==
    pc \in {"align", "align_multi"} =>
        \A i \in 1..Len(ret) : ret[i].path.to_length = ret[i].sequence

-----------------------------------------------------------------------------
(* Paired-end alignment.                                                   *)

\* identity above which a pair counts as perfect, in percent
perfect_pair_identity_threshold == 98

\* the reference paths, in the order a std::map keyed by name walks them
PathNames == <<"p", "q">>

\* path name -> mean position of the alignment on that path
alignment_mean_path_positions(aln) == aln.path.ref

\* map<string, int> lengths, as the list of its entries in key order
approx_pair_fragment_length(aln1, aln2) ==
    LET pos1 == alignment_mean_path_positions(aln1)
        pos2 == alignment_mean_path_positions(aln2)
        Common(name) == name \in DOMAIN pos1 /\ name \in DOMAIN pos2
        names == SelectSeq(PathNames, Common)
    IN  [i \in 1..Len(names) |->
            [name |-> names[i], length |-> pos2[names[i]] - pos1[names[i]]]]

alignments_consistent(pos1, pos2, fragment_size_bound) ==
    \E name \in (DOMAIN pos1) \cap (DOMAIN pos2) :
        Abs(pos1[name] - pos2[name]) < fragment_size_bound

\* the read as an unmapped alignment: clear_path, clear_score, clear_identity
Unmapped(read) == [read EXCEPT !.path = EmptyPath, !.score = 0, !.identity = 0]

\* what a call of a pairing strategy has done so far: the mapper, the two
\* result lists, the out-flag queued_resolve_later, and as history whether
\* the pair was pushed and the calls of record_fragment_configuration, each
\* with its length argument, the identities of the two front alignments and
\* fragment_size as it was at the call, and how often the call was made
\* again with shorter MEMs
PairOutcome(m, first, second) ==
    [m |-> m, first |-> first, second |-> second,
     queued_resolve_later |-> FALSE, pushed |-> FALSE, recorded |-> <<>>,
     imperfect_pair |-> FALSE, reattempts |-> 0]

\* the body of the loop over the fragment lengths of the pair at index i:
\* both alignments get the fragment, then the pair is recorded as a sample
\* of the fragment model or marked imperfect; the separate strategy tests
\* the signed length, the other two strategies its absolute value
RECURSIVE FragmentLengthLoop(_, _, _, _)
FragmentLengthLoop(o, i, lengths, separate) ==
    IF lengths = <<>> THEN o
    ELSE LET j == Head(lengths)
             tested == IF separate THEN j.length ELSE Abs(j.length)
             fragment == [name |-> j.name, length |-> j.length]
             added == [o EXCEPT !.first[i].fragment = Append(@, fragment),
                                !.second[i].fragment = Append(@, fragment)]
             perfect ==
                 /\ Len(o.first) = 1
                 /\ Len(o.second) = 1
                 /\ o.first[1].identity > perfect_pair_identity_threshold
                 /\ o.second[1].identity > perfect_pair_identity_threshold
                 /\ \/ o.m.fragment_size # 0 /\ tested < o.m.fragment_size
                    \/ o.m.fragment_size = 0 /\ tested < fragment_max
             next ==
                 IF perfect
                 THEN [added EXCEPT
                         !.m = record_fragment_configuration(
                                   o.m, j.length, o.first[i].path.is_reverse,
                                   o.second[i].path.is_reverse),
                         !.recorded = Append(@,
                             [length |-> j.length,
                              identity1 |-> o.first[1].identity,
                              identity2 |-> o.second[1].identity,
                              fragment_size |-> o.m.fragment_size])]
                 ELSE IF o.m.fragment_size = 0
                 THEN [added EXCEPT !.imperfect_pair = TRUE]
                 ELSE added
         IN  FragmentLengthLoop(next, i, Tail(lengths), separate)

\* for (i = 0; i < min(sizes); ++i) { if (retrying) break; ... }
RECURSIVE FragmentLoop(_, _, _, _)
FragmentLoop(o, i, retrying, separate) ==
    IF i > Min(Len(o.first), Len(o.second)) \/ retrying THEN o
    ELSE FragmentLoop(
             FragmentLengthLoop(o, i,
                 approx_pair_fragment_length(o.first[i], o.second[i]), separate),
             i + 1, retrying, separate)

\* an imperfect pair is kept for later and its results are dropped
QueueImperfectPair(o, read1, read2, retrying) ==
    IF ~retrying /\ o.imperfect_pair /\ fragment_max # 0
    THEN [o EXCEPT !.m.imperfect_pairs_to_retry = Append(@, <<read1, read2>>),
                   !.first = <<>>,
                   !.second = <<>>,
                   !.queued_resolve_later = TRUE,
                   !.pushed = TRUE]
    ELSE o

\* the separate strategy cuts both lists to max_multimaps, each on its own;
\* an empty list gets the read as an unmapped alignment
TruncateAndFill(o, read1, read2, separate) ==
    LET first == IF separate THEN Prefix(o.first, o.m.max_multimaps) ELSE o.first
        second == IF separate THEN Prefix(o.second, o.m.max_multimaps) ELSE o.second
    IN  [o EXCEPT !.first = IF first = <<>> THEN <<Unmapped(read1)>> ELSE first,
                  !.second = IF second = <<>> THEN <<Unmapped(read2)>> ELSE second]

\* mutant: an alignment without a path is not linked to the mate
LinkMatesOfMapped(o, read1, read2, separate) ==
    [o EXCEPT
       !.first = [i \in 1..Len(o.first) |->
                    IF o.first[i].path = EmptyPath THEN o.first[i]
                    ELSE [o.first[i] EXCEPT !.fragment_next = read2.name]],
       !.second = [i \in 1..Len(o.second) |->
                    IF o.second[i].path = EmptyPath THEN o.second[i]
                    ELSE [o.second[i] EXCEPT !.fragment_prev = read1.name]]]

\* the closing loops: every alignment of a list is linked to the mate; the
\* combined and the simultaneous strategy also write the read's name
LinkMates(o, read1, read2, separate) ==
    [o EXCEPT
       !.first = [i \in 1..Len(o.first) |->
                    [o.first[i] EXCEPT
                       !.fragment_next = read2.name,
                       !.name = IF separate THEN @ ELSE read1.name]],
       !.second = [i \in 1..Len(o.second) |->
                    [o.second[i] EXCEPT
                       !.fragment_prev = read1.name,
                       !.name = IF separate THEN @ ELSE read2.name]]]

\* what every pairing strategy does with its results before it returns
ResolveFragments(o, read1, read2, retrying, separate) ==
    LinkMates(
        TruncateAndFill(
            QueueImperfectPair(FragmentLoop(o, 1, retrying, separate),
                               read1, read2, retrying),
            read1, read2, separate),
        read1, read2, separate)

\* std::sort by descending score: every arrangement the comparator accepts
SortByScore(alns) ==
    {s \in {[i \in 1..Len(alns) |-> alns[f[i]]] : f \in Orders(Len(alns))} :
        \A i \in 1..(Len(s) - 1) : s[i].score >= s[i + 1].score}

\* the align_mate lambda: the mate without its path is aligned in the window
\* around the read, on the better of the two strands; mate_hit is what the
\* window holds for it
align_mate(read, mate, mate_hit) ==
    Aligned([mate EXCEPT !.path = EmptyPath, !.score = 0], mate_hit)

\* one rescue loop: a mate for every base that has a score and a path, kept
\* when its path is new; without always_rescue the loop ends after the first
RECURSIVE RescueMates(_, _, _, _, _)
RescueMates(bases, read, mate_hit, found, always_rescue) ==
    IF bases = <<>> THEN <<>>
    ELSE LET base == Head(bases)
         IN  IF base.score = 0 \/ ~has_path(base)
             THEN RescueMates(Tail(bases), read, mate_hit, found, always_rescue)
             ELSE LET mate == align_mate(base, read, mate_hit)
                  IN  (IF mate.path \in found THEN <<>> ELSE <<mate>>)
                      \o (IF always_rescue
                          THEN RescueMates(Tail(bases), read, mate_hit,
                                           found \cup {mate.path}, always_rescue)
                          ELSE <<>>)

MaxScore(alns) ==
    IF alns = <<>> THEN 0
    ELSE LET scores == {alns[i].score : i \in 1..Len(alns)} \cup {0}
         IN  CHOOSE s \in scores : \A t \in scores : t <= s

\* the rescue branches of the separate strategy: <<alignments1, alignments2>>
SepRescue(m, read1, read2, alignments1, alignments2, inp) ==
    LET PathsOf(alns) == {alns[i].path : i \in 1..Len(alns)}
        best_score1 == MaxScore(alignments1)
        best_score2 == MaxScore(alignments2)
        rescue == m.fragment_size # 0
    IN  IF rescue /\ best_score1 = 0 /\ best_score2 # 0
        THEN <<RescueMates(alignments2, read1, inp.mate1, {}, m.always_rescue),
               alignments2>>
        ELSE IF rescue /\ best_score1 # 0 /\ best_score2 = 0
        THEN <<alignments1,
               RescueMates(alignments1, read2, inp.mate2, {}, m.always_rescue)>>
        ELSE IF m.always_rescue
        THEN <<alignments1 \o RescueMates(alignments2, read1, inp.mate1,
                                          PathsOf(alignments1), TRUE),
               alignments2 \o RescueMates(alignments1, read2, inp.mate2,
                                          PathsOf(alignments2), TRUE)>>
        ELSE <<alignments1, alignments2>>

\* the walk over the index pairs from <<1, 1>> in the order of the priority
\* queue (largest score sum first, equal sums in any order); the set of the
\* lists of consistent index pairs it can collect
RECURSIVE ConsistentPairs(_, _, _, _, _, _, _)
ConsistentPairs(alns1, alns2, fragment_size, num_pairs, pair_queue, considered_pairs, found) ==
    IF pair_queue = {} \/ Len(found) >= num_pairs THEN {found}
    ELSE LET Sum(p) == alns1[p[1]].score + alns2[p[2]].score
             top == {p \in pair_queue : \A q \in pair_queue : Sum(q) <= Sum(p)}
         IN  UNION {
               LET consistent ==
                       alignments_consistent(
                           alignment_mean_path_positions(alns1[p[1]]),
                           alignment_mean_path_positions(alns2[p[2]]),
                           fragment_size)
                   down == <<p[1] + 1, p[2]>>
                   right == <<p[1], p[2] + 1>>
                   push_down == down[1] <= Len(alns1) /\ down \notin considered_pairs
                   push_right == right[2] <= Len(alns2) /\ right \notin considered_pairs
                   pushed == (IF push_down THEN {down} ELSE {})
                                 \cup (IF push_right THEN {right} ELSE {})
               IN  ConsistentPairs(alns1, alns2, fragment_size, num_pairs,
                                   (pair_queue \ {p}) \cup pushed,
                                   considered_pairs \cup pushed,
                                   IF consistent THEN Append(found, p) ELSE found)
               : p \in top}

\* compute_mapping_qualities on a pair of lists: nothing when one is empty,
\* else the aligner writes its estimate into the first pair
compute_paired_mapping_qualities(first, second) ==
    IF first = <<>> \/ second = <<>> THEN {<<first, second>>}
    ELSE {<<[first EXCEPT ![1].mapping_quality = q],
            [second EXCEPT ![1].mapping_quality = q]>> : q \in MappingQualities}

MarkFirst(alns, read2) ==
    [i \in 1..Len(alns) |->
        [alns[i] EXCEPT !.fragment_next = read2.name, !.is_secondary = (i > 1)]]

MarkSecond(alns, read1) ==
    [i \in 1..Len(alns) |->
        [alns[i] EXCEPT !.fragment_prev = read1.name, !.is_secondary = (i > 1)]]

\* with a fragment model: the consistent pairs in the order of their score
\* sums, cut to max_multimaps in both lists together
SepConsistent(m, read1, read2, alignments1, alignments2, only_top_scoring_pair) ==
    LET num_pairs == IF m.max_multimaps >= 2 THEN m.max_multimaps ELSE 2
        walks == IF alignments1 = <<>> \/ alignments2 = <<>> THEN {<<>>}
                 ELSE ConsistentPairs(alignments1, alignments2, m.fragment_size,
                                      num_pairs, {<<1, 1>>}, {}, <<>>)
    IN  UNION {
          {LET cut == Len(q[1]) > m.max_multimaps
               first == MarkFirst(IF cut THEN Prefix(q[1], m.max_multimaps) ELSE q[1], read2)
               second == MarkSecond(IF cut THEN Prefix(q[2], m.max_multimaps) ELSE q[2], read1)
           IN  IF /\ only_top_scoring_pair
                  /\ first # <<>>
                  /\ \/ first[1].score < alignments1[1].score
                     \/ second[1].score < alignments2[1].score
               THEN <<<<>>, <<>>>>
               ELSE <<first, second>>
           : q \in compute_paired_mapping_qualities(
                       [i \in 1..Len(w) |-> alignments1[w[i][1]]],
                       [i \in 1..Len(w) |-> alignments2[w[i][2]]])}
          : w \in walks}

\* without a fragment model: the two lists as they are, each cut to
\* max_multimaps on its own
SepUnpaired(m, read1, read2, alignments1, alignments2) ==
    {<<MarkFirst(Prefix(q[1], m.max_multimaps), read2),
       MarkSecond(Prefix(q[2], m.max_multimaps), read1)>>
     : q \in compute_paired_mapping_qualities(alignments1, alignments2)}

kmer_sensitivity_step == 5

min_mem_length == 0

\* the order of the GCSA index, the MEM length used when max_mem_length is 0
gcsa_order == 8

\* Mapper::align_paired_multi_sep; inp holds what the indexes and the
\* aligner yield for this pair: the candidates of both reads (hits1, hits2),
\* the candidates found with shorter MEMs (rehits1, rehits2) and what the
\* window around a mate holds (mate1, mate2); the set of outcomes
RECURSIVE align_paired_multi_sep(_, _, _, _, _, _, _, _, _)
align_paired_multi_sep(m, read1, read2, kmer_size, max_mem_length, band_width, only_top_scoring_pair, retrying, inp) ==
    LET new_mem_max ==
            Max(min_mem_length,
                (IF max_mem_length # 0 THEN max_mem_length ELSE gcsa_order)
                    - kmer_sensitivity_step)
        Paired(a1, a2) ==
            LET r == SepRescue(m, read1, read2, a1, a2, inp)
            IN  UNION {UNION {
                    IF m.fragment_size # 0
                    THEN SepConsistent(m, read1, read2, s1, s2, only_top_scoring_pair)
                    ELSE SepUnpaired(m, read1, read2, s1, s2)
                    : s2 \in SortByScore(r[2])} : s1 \in SortByScore(r[1])}
        Finish(results) ==
            IF /\ \/ results[1] = <<>>
                  \/ results[2] = <<>>
                  \/ results[1][1].score = 0
                  \/ results[2][1].score = 0
               /\ kmer_sensitivity_step # 0
               /\ new_mem_max > min_mem_length
            THEN {[o EXCEPT !.reattempts = @ + 1] :
                     o \in align_paired_multi_sep(m, read1, read2, kmer_size,
                                                  new_mem_max, band_width,
                                                  \* only_top_scoring_pair and retrying
                                                  \* are left out: their defaults
                                                  FALSE, FALSE,
                                                  [inp EXCEPT !.hits1 = inp.rehits1,
                                                              !.hits2 = inp.rehits2])}
            ELSE {ResolveFragments(PairOutcome(m, results[1], results[2]),
                                   read1, read2, retrying, TRUE)}
    IN  UNION {UNION {UNION {Finish(results) : results \in Paired(a1, a2)}
            : a2 \in align_multi_internal(m, FALSE, read2, kmer_size, band_width,
                                          inp.hits2, <<>>, m.extra_multimaps)}
            : a1 \in align_multi_internal(m, FALSE, read1, kmer_size, band_width,
                                          inp.hits1, <<>>, m.extra_multimaps)}

approx_alignment_position(aln) == IF has_path(aln) THEN aln.path.pos ELSE -1

approx_fragment_length(aln1, aln2) ==
    LET pos1 == approx_alignment_position(aln1)
        pos2 == approx_alignment_position(aln2)
    IN  IF pos1 # -1 /\ pos2 # -1 THEN Abs(pos1 - pos2) ELSE -1

\* Mapper::pair_consistent; the strand of the second mate is read from aln1
pair_consistent(m, aln1, aln2) ==
    LET LengthOk(len) ==
            \/ len > 0 /\ len < m.fragment_size
            \/ m.fragment_size = 0 /\ len > 0 /\ len < fragment_max
        length_ok ==
            IF aln1.fragment = <<>>
            THEN LengthOk(approx_fragment_length(aln1, aln2))
            ELSE \E i \in 1..Len(aln1.fragment) : LengthOk(Abs(aln1.fragment[i].length))
        aln1_is_rev == aln1.path.is_reverse
        aln2_is_rev == aln1.path.is_reverse
        same_orientation == m.cached_fragment_orientation
        orientation_ok ==
            \/ same_orientation /\ aln1_is_rev = aln2_is_rev
            \/ ~same_orientation /\ aln1_is_rev # aln2_is_rev
    IN  IF ~(aln1.score # 0 /\ aln2.score # 0) THEN FALSE
        ELSE length_ok /\ orientation_ok

\* the density of the fragment length model at a length, as a weight: 2
\* within one standard deviation of the mean, 1 elsewhere
fragment_length_weight(m, length) ==
    LET mean == m.cached_fragment_length_mean
        sd == m.cached_fragment_length_stdev
    IN  IF Abs(length * mean.den - mean.num) * sd.den <= Isqrt(sd.rad) * mean.den
        THEN 2 ELSE 1

\* one entry of alnpairs, with the score and the bonus that
\* score_sort_and_dedup gives it; with a fragment model the bonus of a
\* consistent pair is its score weighted by the density of its length
AlignmentPair(m, mate1, mate2) ==
    LET score == mate1.score + mate2.score
        dist == approx_fragment_length(mate1, mate2)
    IN  [mate1 |-> mate1, mate2 |-> mate2, score |-> score,
         bonus |-> IF score = 0 THEN 0
                   ELSE IF m.fragment_size # 0
                   THEN (IF pair_consistent(m, mate1, mate2)
                         THEN score * fragment_length_weight(m, dist) ELSE 0)
                   ELSE (IF dist > 0 /\ dist < fragment_max THEN score ELSE 0)]

RemoveAt(s, i) == SubSeq(s, 1, i - 1) \o SubSeq(s, i + 1, Len(s))

\* std::sort with PairBefore: every arrangement the comparator accepts
RECURSIVE SortPairs(_)
SortPairs(alns) ==
    LET \* the comparator of the std::sort over the pairs
        PairBefore(pair1, pair2) ==
            IF pair1.bonus # 0 \/ pair2.bonus # 0
            THEN pair1.bonus > pair2.bonus
            ELSE pair1.score > pair2.score
    IN
    IF alns = <<>> THEN {<<>>}
    ELSE UNION {{<<alns[i]>> \o rest : rest \in SortPairs(RemoveAt(alns, i))}
                : i \in {i \in 1..Len(alns) :
                           \A j \in 1..Len(alns) : ~PairBefore(alns[j], alns[i])}}

\* std::unique: an element is dropped when the predicate holds of the last
\* element kept and it
RECURSIVE UniquePairsFrom(_, _)
UniquePairsFrom(kept, rest) ==
    LET \* the predicate of the std::unique over the sorted pairs
        SamePair(pair1, pair2) ==
            LET both1 == pair1.mate1.score # 0 /\ pair2.mate1.score # 0
                both2 == pair1.mate2.score # 0 /\ pair2.mate2.score # 0
                SamePos(a, b) == a.path.pos = b.path.pos /\ a.path.is_reverse = b.path.is_reverse
            IN  /\ both1 => SamePos(pair1.mate1, pair2.mate1)
                /\ both2 => SamePos(pair1.mate2, pair2.mate2)
                /\ both1 \/ both2
    IN
    IF rest = <<>> THEN kept
    ELSE IF SamePair(kept[Len(kept)], Head(rest))
    THEN UniquePairsFrom(kept, Tail(rest))
    ELSE UniquePairsFrom(Append(kept, Head(rest)), Tail(rest))

UniquePairs(alns) ==
    IF alns = <<>> THEN alns ELSE UniquePairsFrom(<<Head(alns)>>, Tail(alns))

\* alnpairs of the combined strategy: for every alignment of read1 its pair
\* with every alignment of read2, each followed by the pair of that
\* alignment of read2 with the unaligned read1, and then its pair with the
\* unaligned read2
RECURSIVE CombiPairs(_, _, _, _, _)
CombiPairs(m, alignments1, alignments2, unaligned1, unaligned2) ==
    IF alignments1 = <<>> THEN <<>>
    ELSE LET aln1 == Head(alignments1)
             Both(i) == <<AlignmentPair(m, aln1, alignments2[i]),
                          AlignmentPair(m, unaligned1, alignments2[i])>>
             Inner[i \in 0..Len(alignments2)] ==
                 IF i = 0 THEN <<>> ELSE Inner[i - 1] \o Both(i)
         IN  Inner[Len(alignments2)]
                 \o <<AlignmentPair(m, aln1, unaligned2)>>
                 \o CombiPairs(m, Tail(alignments1), alignments2, unaligned1, unaligned2)

\* from the sorted pairs to the results: the two parallel lists get the
\* mapping quality, are cut to max_multimaps together and marked; a best
\* pair that does not hold the best score of each read is dropped when
\* only_top_scoring_pair is set
PairsToResults(m, read1, read2, alns, only_top_scoring_pair) ==
    LET firsts == [i \in 1..Len(alns) |-> alns[i].mate1]
        seconds == [i \in 1..Len(alns) |-> alns[i].mate2]
        read1_max_score == MaxScore(firsts)
        read2_max_score == MaxScore(seconds)
    IN  {LET cut == Len(q[1]) > m.max_multimaps
             first == MarkFirst(IF cut THEN Prefix(q[1], m.max_multimaps) ELSE q[1], read2)
             second == MarkSecond(IF cut THEN Prefix(q[2], m.max_multimaps) ELSE q[2], read1)
         IN  IF /\ only_top_scoring_pair
                /\ first # <<>>
                /\ \/ first[1].score < read1_max_score
                   \/ second[1].score < read2_max_score
             THEN <<<<>>, <<>>>>
             ELSE <<first, second>>
         : q \in compute_paired_mapping_qualities(firsts, seconds)}

\* Mapper::align_paired_multi_combi; the set of outcomes
align_paired_multi_combi(m, read1, read2, kmer_size, max_mem_length, band_width, only_top_scoring_pair, retrying, inp) ==
    LET total_multimaps == m.max_multimaps + m.extra_multimaps
        unaligned1 == [read1 EXCEPT !.path = EmptyPath, !.score = 0]
        unaligned2 == [read2 EXCEPT !.path = EmptyPath, !.score = 0]
        Sorted(a1, a2) ==
            {Prefix(UniquePairs(s), total_multimaps)
             : s \in SortPairs(CombiPairs(m, a1, a2, unaligned1, unaligned2))}
    IN  UNION {UNION {UNION {
            {ResolveFragments(PairOutcome(m, results[1], results[2]),
                              read1, read2, retrying, FALSE)
             : results \in PairsToResults(m, read1, read2, alns, only_top_scoring_pair)}
            : alns \in Sorted(a1, a2)}
            : a2 \in align_multi_internal(m, FALSE, read2, kmer_size, band_width,
                                          inp.hits2, <<>>, m.extra_multimaps)}
            : a1 \in align_multi_internal(m, FALSE, read1, kmer_size, band_width,
                                          inp.hits1, <<>>, m.extra_multimaps)}

mate_rescues == 32

\* identities, in percent, between which pair_rescue tries a mate again
hang_threshold == 90

retry_threshold == 70

\* an Alignment that holds nothing but the sequence, aligned to the subgraph
\* around the likely position of the mate
RescuedMate(mate, mate_hit) ==
    Aligned([name |-> "", sequence |-> mate.sequence, path |-> EmptyPath,
             score |-> 0, identity |-> 0, mapping_quality |-> 0,
             is_secondary |-> FALSE, fragment_prev |-> "",
             fragment_next |-> "", fragment |-> <<>>], mate_hit)

\* a pair_rescue that also takes a rescued alignment of the same score
pair_rescue_on_ties(m, p, inp) ==
    LET mate1 == p.mate1
        mate2 == p.mate2
        rescue_off_first ==
            /\ mate1.identity > mate2.identity
            /\ mate1.identity > hang_threshold
            /\ mate2.identity < retry_threshold
        rescue_off_second ==
            /\ ~rescue_off_first
            /\ mate2.identity > mate1.identity
            /\ mate2.identity > hang_threshold
            /\ mate1.identity < retry_threshold
        aln2 == RescuedMate(mate2, inp.mate2)
        aln1 == RescuedMate(mate1, inp.mate1)
    IN  IF m.fragment_size = 0 THEN <<FALSE, p>>
        ELSE IF rescue_off_first /\ aln2.score >= mate2.score
        THEN <<TRUE, [p EXCEPT !.mate2 = aln2]>>
        ELSE IF rescue_off_second /\ aln1.score >= mate1.score
        THEN <<TRUE, [p EXCEPT !.mate1 = aln1]>>
        ELSE <<FALSE, p>>

\* Mapper::pair_rescue on one pair: <<rescued, pair>>
pair_rescue(m, p, inp) ==
    LET mate1 == p.mate1
        mate2 == p.mate2
        rescue_off_first ==
            /\ mate1.identity > mate2.identity
            /\ mate1.identity > hang_threshold
            /\ mate2.identity < retry_threshold
        rescue_off_second ==
            /\ ~rescue_off_first
            /\ mate2.identity > mate1.identity
            /\ mate2.identity > hang_threshold
            /\ mate1.identity < retry_threshold
        aln2 == RescuedMate(mate2, inp.mate2)
        aln1 == RescuedMate(mate1, inp.mate1)
    IN  IF m.fragment_size = 0 THEN <<FALSE, p>>
        ELSE IF rescue_off_first /\ aln2.score > mate2.score
        THEN <<TRUE, [p EXCEPT !.mate2 = aln2]>>
        ELSE IF rescue_off_second /\ aln1.score > mate1.score
        THEN <<TRUE, [p EXCEPT !.mate1 = aln1]>>
        ELSE <<FALSE, p>>

\* the pairs the clusters of the chain model give, one per cluster that has
\* seeds of a read: the i-th cluster holds the i-th candidate of each read
\* that has that many; the loop breaks once multimaps > total_multimaps
SimulPairs(read1, read2, hits1, hits2, total_multimaps) ==
    [i \in 1..Min(Max(Len(hits1), Len(hits2)), total_multimaps + 1) |->
        [mate1 |-> IF i <= Len(hits1) THEN Aligned(read1, hits1[i])
                   ELSE Unmapped(read1),
         mate2 |-> IF i <= Len(hits2) THEN Aligned(read2, hits2[i])
                   ELSE Unmapped(read2)]]

RECURSIVE SortSimulPairs(_, _)
SortSimulPairs(m, alns) ==
    LET \* the comparator of the std::sort in sort_and_dedup
        SimulBefore(pair1, pair2) ==
            LET Bonus(p) ==
                    IF m.fragment_size # 0
                    THEN fragment_length_weight(m, approx_fragment_length(p.mate1, p.mate2))
                             * (m.cached_fragment_length_mean.num
                                    \div m.cached_fragment_length_mean.den)
                    ELSE 0
            IN  pair1.mate1.score + pair1.mate2.score + Bonus(pair1)
                    > pair2.mate1.score + pair2.mate2.score + Bonus(pair2)
    IN
    IF alns = <<>> THEN {<<>>}
    ELSE UNION {{<<alns[i]>> \o rest : rest \in SortSimulPairs(m, RemoveAt(alns, i))}
                : i \in {i \in 1..Len(alns) :
                           \A j \in 1..Len(alns) : ~SimulBefore(alns[j], alns[i])}}

sort_and_dedup(m, alns) == {UniquePairs(s) : s \in SortSimulPairs(m, alns)}

\* the rescue loop over the first mate_rescues pairs: <<rescued, alns>>
RescuePairs(m, alns, inp) ==
    LET tried == [i \in 1..Len(alns) |->
                     IF i <= mate_rescues THEN pair_rescue(m, alns[i], inp)
                     ELSE <<FALSE, alns[i]>>]
    IN  <<\E i \in 1..Len(alns) : tried[i][1],
          [i \in 1..Len(alns) |-> tried[i][2]]>>

\* Mapper::align_paired_multi_simul; the set of outcomes
align_paired_multi_simul(m, read1, read2, max_mem_length, only_top_scoring_pair, retrying, inp) ==
    LET total_multimaps == m.max_multimaps + m.extra_multimaps
        Rescued(alns) ==
            IF m.fragment_size # 0
            THEN LET r == RescuePairs(m, alns, inp)
                 IN  IF r[1] THEN sort_and_dedup(m, r[2]) ELSE {r[2]}
            ELSE {alns}
    IN  UNION {UNION {
            {ResolveFragments(PairOutcome(m, results[1], results[2]),
                              read1, read2, retrying, FALSE)
             : results \in PairsToResults(m, read1, read2, alns, only_top_scoring_pair)}
            : alns \in Rescued(sorted)}
            : sorted \in sort_and_dedup(m, SimulPairs(read1, read2, inp.hits1,
                                                      inp.hits2, total_multimaps))}

\* Mapper::align_paired_multi
align_paired_multi(m, read1, read2, kmer_size, max_mem_length, band_width, only_top_scoring_pair, retrying, inp) ==
    IF m.mem_chaining /\ read1.sequence < band_width
    THEN IF m.simultaneous_pair_alignment
         THEN align_paired_multi_simul(m, read1, read2, max_mem_length,
                                       only_top_scoring_pair, retrying, inp)
         ELSE align_paired_multi_combi(m, read1, read2, kmer_size, max_mem_length,
                                       band_width, only_top_scoring_pair,
                                       retrying, inp)
    ELSE align_paired_multi_sep(m, read1, read2, kmer_size, max_mem_length,
                                band_width, only_top_scoring_pair, retrying, inp)

\* checkpoints that come after the fragments of the pair were resolved
TimerCheckpointsAfterResolve(m, read1, read2, kmer_size, max_mem_length, band_width, inp) ==
    {[at |-> "resolved", m |-> o.m] :
        o \in align_paired_multi(m, read1, read2, kmer_size, max_mem_length,
                                 band_width, FALSE, FALSE, inp)}

\* the Timer::check() calls one align_paired_multi call passes, each with the
\* mapper as it is at that call: the simultaneous strategy polls before it
\* builds the chain model (1729), once per cluster (1786), once per aligned
\* pair (1834) and in pair_rescue (473, 531, 533), which runs once a fragment
\* model exists; align_cluster polls while it collects the subgraph of a
\* cluster (2514) in the simultaneous and in the combined strategy; all of
\* them come before the first record_fragment_configuration call and the
\* push onto imperfect_pairs_to_retry
TimerCheckpoints(m, read1, read2, kmer_size, max_mem_length, band_width, inp) ==
    LET clusters == Len(inp.hits1) > 0 \/ Len(inp.hits2) > 0
    IN  IF m.mem_chaining /\ read1.sequence < band_width
        THEN IF m.simultaneous_pair_alignment
             THEN {[at |-> "model", m |-> m]}
                    \cup (IF clusters
                          THEN {[at |-> "cluster", m |-> m],
                                [at |-> "align_cluster", m |-> m],
                                [at |-> "pair", m |-> m]}
                          ELSE {})
                    \cup (IF clusters /\ m.fragment_size # 0
                          THEN {[at |-> "pair_rescue", m |-> m]}
                          ELSE {})
             ELSE IF clusters THEN {[at |-> "align_cluster", m |-> m]} ELSE {}
        ELSE {}

-----------------------------------------------------------------------------
(* SpecPair: the caller sets the options of the mapper and maps read       *)
(* pairs with align_paired_multi, for the first time or retrying.          *)

PairHit(score, pos, identity, ref) ==
    [score |-> score, edits |-> 0, pos |-> pos, identity |-> identity,
     is_reverse |-> FALSE, ref |-> ref]

NoHit == Hit(0, 0, 0, 0)

\* a perfect candidate of the first read, which lies on both reference paths
FirstHit == PairHit(2, 10, 100, ("p" :> 10) @@ ("q" :> 10))

\* a perfect candidate of the second read, close behind the first read
NearHit == PairHit(2, 12, 100, "p" :> 12)

\* what the indexes and the aligner hold for a pair.  Candidates of the
\* first read: the perfect one and a weaker one; of the second read: close
\* behind the first read, far behind it, in front of it, far on one path and
\* close on the other, and a weaker one.  Shorter MEMs and the windows around
\* the mates hold nothing, or the perfect candidates; in one more input the
\* first search finds nothing for the first read and shorter MEMs find the
\* perfect first candidate and the weaker second one.
PairInputs ==
    LET WeakFirstHit == PairHit(1, 30, 90, "p" :> 30)
        FarHit == PairHit(2, 19, 100, "p" :> 19)
        BehindHit == PairHit(2, 1, 100, "p" :> 1)
        FarAndNearHit == PairHit(2, 19, 100, ("p" :> 19) @@ ("q" :> 12))
        WeakHit == PairHit(1, 13, 90, "p" :> 13)
        FirstHitLists == {<<>>, <<FirstHit>>, <<FirstHit, WeakFirstHit>>}
        SecondHitLists ==
            {<<NoHit>>, <<NearHit>>, <<FarHit>>, <<BehindHit>>, <<FarAndNearHit>>,
             <<WeakHit>>, <<NearHit, WeakHit>>}
    IN  {[hits1 |-> hits1, hits2 |-> hits2,
          rehits1 |-> IF found THEN <<FirstHit>> ELSE <<>>,
          rehits2 |-> IF found THEN <<NearHit>> ELSE <<>>,
          mate1 |-> IF found THEN FirstHit ELSE NoHit,
          mate2 |-> IF found THEN NearHit ELSE NoHit]
         : hits1 \in FirstHitLists, hits2 \in SecondHitLists, found \in BOOLEAN}
        \cup {[hits1 |-> <<>>, hits2 |-> <<WeakHit>>,
                rehits1 |-> <<FirstHit>>, rehits2 |-> <<WeakHit>>,
                mate1 |-> NoHit, mate2 |-> NoHit]}

\* the two reads of a pair, fresh or with the path of an earlier alignment
PairReads ==
    {<<Read("r1", ShortReadLength, realigned), Read("r2", ShortReadLength, realigned)>>
     : realigned \in BOOLEAN}

\* no more samples than this are recorded before the last pair is mapped
MaxPairSamples == 4

\* no more pairs than this wait in imperfect_pairs_to_retry
MaxQueued == 1

\* the caller assigns the public option members before it maps
ConfigurePair(max_multimaps, mem_chaining, simultaneous_pair_alignment) ==
    /\ pc = "idle"
    /\ mapper.n_recorded = 0
    /\ mapper.imperfect_pairs_to_retry = <<>>
    /\ mapper' = [mapper EXCEPT
                    !.max_multimaps = max_multimaps,
                    !.mem_chaining = mem_chaining,
                    !.simultaneous_pair_alignment = simultaneous_pair_alignment]
    /\ UNCHANGED <<callVars, ompVars>>

\* one call of align_paired_multi with queued_resolve_later false on entry
AlignPairedMulti(read1, read2, kmer_size, max_mem_length, band_width, only_top_scoring_pair, retrying, inp) ==
    /\ pc = "idle"
    /\ mapper.n_recorded < MaxPairSamples
    /\ \E o \in align_paired_multi(mapper, read1, read2, kmer_size, max_mem_length,
                                   band_width, only_top_scoring_pair, retrying, inp) :
          /\ Len(o.m.imperfect_pairs_to_retry) <= MaxQueued
          /\ mapper' = o.m
          /\ pc' = "align_paired_multi"
          /\ call' = [op |-> "align_paired_multi", read1 |-> read1, read2 |-> read2,
                      retrying |-> retrying,
                      only_top_scoring_pair |-> only_top_scoring_pair]
          /\ ret' = [first |-> o.first, second |-> o.second,
                     queued_resolve_later |-> o.queued_resolve_later,
                     pushed |-> o.pushed, recorded |-> o.recorded,
                     reattempts |-> o.reattempts]
    /\ UNCHANGED ompVars

\* the timer trips at one of the checkpoints of an align_paired_multi call:
\* the call unwinds from there and hands nothing back
AlignPairedMultiCancelled(read1, read2, kmer_size, max_mem_length, band_width, inp) ==
    /\ pc = "idle"
    /\ \E c \in TimerCheckpoints(mapper, read1, read2, kmer_size, max_mem_length,
                                  band_width, inp) :
          /\ mapper' = c.m
          /\ pc' = "cancelled"
          /\ call' = [op |-> "align_paired_multi", at |-> c.at]
          /\ ret' = <<>>
    /\ UNCHANGED ompVars

\* the strategies are <<mem_chaining, simultaneous_pair_alignment>> for the
\* separate, the combined and the simultaneous one
NextPair ==
    \/ \E max_multimaps \in 1..MaxMultimaps,
          strategy \in {<<FALSE, TRUE>>, <<TRUE, FALSE>>, <<TRUE, TRUE>>} :
          ConfigurePair(max_multimaps, strategy[1], strategy[2])
    \/ \E reads \in PairReads, only_top_scoring_pair \in BOOLEAN,
          retrying \in BOOLEAN, inp \in PairInputs :
          AlignPairedMulti(reads[1], reads[2], 0, 0, 8, only_top_scoring_pair,
                           retrying, inp)
    \/ \E reads \in PairReads, inp \in PairInputs :
          AlignPairedMultiCancelled(reads[1], reads[2], 0, 0, 8, inp)
    \/ Return

SpecPair == Init /\ [][NextPair]_vars

\* C1: the two lists that align_paired_multi returns have the same length,
\* in every strategy, with or without a fragment model, retrying or not.
C1_ListsHaveSameLength ==
    pc = "align_paired_multi" => Len(ret.first) = Len(ret.second)

\* C2: every alignment of the first list names read2 in fragment_next and
\* every alignment of the second list names read1 in fragment_prev, also
\* when the entries are unmapped or the pair was queued for a retry.
C2_MateLinksNamePartner ==
    pc = "align_paired_multi" =>
        /\ \A i \in 1..Len(ret.first) :
               ret.first[i].fragment_next = call.read2.name
        /\ \A i \in 1..Len(ret.second) :
               ret.second[i].fragment_prev = call.read1.name

\* a pair of reads that came with the links of an earlier alignment was
\* queued for a retry and is returned as two unmapped alignments
C2_Witness ==
    /\ pc = "align_paired_multi"
    /\ ret.pushed
    /\ call.read1.fragment_next = "old"
    /\ call.read2.fragment_prev = "old"
    /\ ~has_path(ret.first[1])
    /\ ~has_path(ret.second[1])

\* C6: queued_resolve_later is set exactly in the calls that pushed the pair
\* onto imperfect_pairs_to_retry, a pair is pushed only while fragment_size
\* is 0, and a call that pushed returns one unmapped alignment per mate.
C6_QueuedOnlyWithoutModel ==
    pc = "align_paired_multi" =>
        /\ ret.queued_resolve_later <=> ret.pushed
        /\ ret.pushed =>
              /\ mapper.fragment_size = 0
              /\ Len(ret.first) = 1 /\ ~has_path(ret.first[1])
              /\ Len(ret.second) = 1 /\ ~has_path(ret.second[1])

\* C7: record_fragment_configuration is called only when both alignments
\* have an identity above perfect_pair_identity_threshold and the absolute
\* value of the length is below fragment_size, or below fragment_max while
\* fragment_size is 0, in every strategy.
C7_RecordsOnlyPerfectPairs ==
    pc = "align_paired_multi" =>
        \A i \in 1..Len(ret.recorded) :
            LET r == ret.recorded[i]
            IN  /\ r.identity1 > perfect_pair_identity_threshold
                /\ r.identity2 > perfect_pair_identity_threshold
                /\ Abs(r.length) < (IF r.fragment_size # 0 THEN r.fragment_size
                                    ELSE fragment_max)

-----------------------------------------------------------------------------
(* The MEM chain model.                                                    *)
(* `model` is the vector of MEMChainModelVertex in storage order.  A       *)
(* vertex is named by its index, nullptr is 0.  A vertex keeps weight,     *)
(* mem.fragment, mem.begin, prev_cost (pairs first/second), score, prev.   *)

\* the largest number of vertexes, of transitions, and the alt_alns asked for
MaxVertexes == 3
MaxTransitions == 2
MaxChains == 3

\* MEMChainModel::clear_scores followed by MEMChainModel::score: one pass
\* over the vertexes in storage order
score(model, exclude) ==
    LET n == Len(model)
        cleared == [v \in 1..n |-> [model[v] EXCEPT !.score = 0, !.prev = 0]]
        S[i \in 0..n] ==
            IF i = 0 THEN cleared
            ELSE LET scored == S[i - 1]
                     m == scored[i]
                     P[k \in 0..Len(m.prev_cost)] ==
                         IF k = 0 THEN [score |-> m.weight, prev |-> m.prev]
                         ELSE LET p == m.prev_cost[k]
                                  proposal == m.weight + p.second + scored[p.first].score
                              IN  IF p.first = 0 THEN P[k - 1]
                                  ELSE IF proposal > P[k - 1].score
                                       THEN [score |-> proposal, prev |-> p.first]
                                       ELSE P[k - 1]
                 IN  IF i \in exclude THEN scored
                     ELSE [scored EXCEPT ![i].score = P[Len(m.prev_cost)].score,
                                         ![i].prev = P[Len(m.prev_cost)].prev]
    IN  S[n]

\* a max_vertex that returns the last vertex with a score
max_vertex_last_scored(model) ==
    LET scored == {v \in 1..Len(model) : model[v].score > 0}
    IN  IF scored = {} THEN IF Len(model) = 0 THEN 0 ELSE 1
        ELSE CHOOSE v \in scored : \A u \in scored : u <= v

\* MEMChainModel::max_vertex: the first vertex of the highest score
max_vertex(model) ==
    LET M[i \in 0..Len(model)] ==
            IF i = 0 THEN 0
            ELSE IF M[i - 1] = 0 \/ model[i].score > model[M[i - 1]].score
                 THEN i ELSE M[i - 1]
    IN  M[Len(model)]

\* a masking that leaves every transition in place
mask_no_transitions(model, vertex_trace, paired) ==
    model

\* the masking loop of MEMChainModel::traceback: vertex_trace runs from the
\* vertex of the highest score back to the start of the chain
mask_used_transitions(model, vertex_trace, paired) ==
    LET chain_members == IF paired THEN {vertex_trace[k] : k \in DOMAIN vertex_trace}
                         ELSE {}
        Masked(vertex, prev) ==
            [k \in DOMAIN model[vertex].prev_cost |->
                LET p == model[vertex].prev_cost[k]
                IN  IF p.first = prev THEN [p EXCEPT !.first = 0]
                    ELSE IF /\ paired
                            /\ p.first # 0
                            /\ model[p.first].fragment # model[vertex].fragment
                            /\ p.first \in chain_members
                         THEN [p EXCEPT !.first = 0]
                         ELSE p]
    IN  [v \in DOMAIN model |->
            IF \E k \in 1..(Len(vertex_trace) - 1) : vertex_trace[k] = v
            THEN LET k == CHOOSE k \in 1..(Len(vertex_trace) - 1) : vertex_trace[k] = v
                 IN  [model[v] EXCEPT !.prev_cost = Masked(v, vertex_trace[k + 1])]
            ELSE model[v]]

\* MEMChainModel::traceback: up to alt_alns chains, each with the score of
\* the vertex it was traced from and the transitions walked for it
traceback(model, alt_alns, paired) ==
    LET RECURSIVE Iterate(_, _, _, _)
        Iterate(mdl, exclude, i, out) ==
            IF i >= alt_alns THEN out
            ELSE LET scored == score(mdl, exclude)
                     vertex == max_vertex(scored)
                 IN  IF vertex = 0 THEN out
                     ELSE IF scored[vertex].score = 0 THEN out
                     ELSE
                       LET RECURSIVE Back(_)
                           Back(v) == IF scored[v].prev # 0
                                      THEN <<v>> \o Back(scored[v].prev)
                                      ELSE <<v>>
                           vertex_trace == Back(vertex)
                           members == {vertex_trace[k] : k \in DOMAIN vertex_trace}
                           excluded == IF paired
                                       THEN IF Len(vertex_trace) = 1
                                            THEN exclude \cup {vertex_trace[1]}
                                            ELSE exclude
                                       ELSE exclude \cup members
                           mem_trace == [k \in DOMAIN vertex_trace |->
                                            vertex_trace[Len(vertex_trace) + 1 - k]]
                           walked == {<<vertex_trace[k + 1], vertex_trace[k]>> :
                                         k \in 1..(Len(vertex_trace) - 1)}
                       IN  Iterate(mask_used_transitions(scored, vertex_trace, paired),
                                   excluded, i + 1,
                                   [traces |-> Append(out.traces, mem_trace),
                                    scores |-> Append(out.scores, scored[vertex].score),
                                    walked |-> Append(out.walked, walked)])
    IN  Iterate(model, {}, 0, [traces |-> <<>>, scores |-> <<>>, walked |-> <<>>])

-----------------------------------------------------------------------------
(* SpecChain: traceback calls on the models the constructor can build.     *)

MEMChainTraceback(alt_alns) ==
    /\ pc = "MEMChainModel"
    /\ pc' = "traceback"
    /\ call' = [call EXCEPT !.op = "traceback"] @@ [alt_alns |-> alt_alns]
    /\ ret' = traceback(call.model, alt_alns, call.paired)
    /\ UNCHANGED <<mapper, ompVars>>

\* MEMChainModel::MEMChainModel, a step at a time: the vertexes are stored
\* first, each with the length of a MEM of a read of two bases as its
\* weight; a transition u -> v is then added to v's prev_cost when
\* u.fragment < v.fragment, or the fragment is the same and u.begin < v.begin
\* (the constructor tests fragment or begin, and transition_weight refuses
\* the transitions that go back a fragment); the weight between fragments
\* is a positive density, the weight within a fragment is the unique
\* coverage less the gap penalty, of either sign
MEMChainModel ==
    \/ \E paired \in BOOLEAN :
          /\ pc = "idle"
          /\ pc' = "MEMChainModel"
          /\ call' = [op |-> "MEMChainModel", paired |-> paired, model |-> <<>>]
          /\ ret' = <<>>
          /\ UNCHANGED <<mapper, ompVars>>
    \/ \E weight \in {1, 2}, fragment \in {1, 2}, begin \in {0, 1} :
          /\ pc = "MEMChainModel"
          /\ Len(call.model) < MaxVertexes
          /\ \A x \in DOMAIN call.model : call.model[x].prev_cost = <<>>
          /\ ~call.paired => fragment = 1
          /\ fragment = 2 => begin = 0
          /\ begin + weight <= 2
          /\ call' = [call EXCEPT !.model = Append(@,
                         [weight |-> weight, fragment |-> fragment, begin |-> begin,
                          prev_cost |-> <<>>, score |-> 0, prev |-> 0])]
          /\ UNCHANGED <<mapper, pc, ret, ompVars>>
    \/ \E u \in 1..MaxVertexes, v \in 1..MaxVertexes, second \in {-1, 1} :
          /\ pc = "MEMChainModel"
          /\ u \in DOMAIN call.model
          /\ v \in DOMAIN call.model
          /\ \/ call.model[u].fragment < call.model[v].fragment
             \/ /\ call.model[u].fragment = call.model[v].fragment
                /\ call.model[u].begin < call.model[v].begin
          /\ call.model[u].fragment < call.model[v].fragment => second = 1
          /\ \A k \in DOMAIN call.model[v].prev_cost :
                 call.model[v].prev_cost[k].first # u
          /\ SumSeq([x \in DOMAIN call.model |-> Len(call.model[x].prev_cost)])
                 < MaxTransitions
          /\ call' = [call EXCEPT !.model[v].prev_cost =
                         Append(@, [first |-> u, second |-> second])]
          /\ UNCHANGED <<mapper, pc, ret, ompVars>>

\* the scores of the aligner the transition weight uses
alignment_match == 1

alignment_gap_open == 6

alignment_gap_extension == 1

\* the length of the read whose MEMs are chained
MaxMemEnd == 4

\* mems_overlap_length (with mems_overlap)
mems_overlap_length(mem1, mem2) ==
    LET mems_overlap ==
            /\ mem1.fragment = mem2.fragment
            /\ ~(mem1.end <= mem2.begin \/ mem2.end <= mem1.begin)
    IN  IF ~mems_overlap THEN 0
        ELSE IF mem1.begin < mem2.begin
        THEN (IF mem1.end < mem2.end THEN mem2.end - mem1.begin
              ELSE mem1.end - mem1.begin)
        ELSE (IF mem2.end < mem1.end THEN mem1.end - mem2.begin
              ELSE mem2.end - mem2.begin)

\* the transition_weight lambda of mems_pos_clusters_to_alignments; the
\* distance between the first hits of the two MEMs and whether they lie on
\* different strands are given; the weight is the fraction num / den, and a
\* transition that is not accepted has the weight -max
TransitionWeight(m1, m2, max_length, approx_dist, inversion) ==
    /\ pc = "idle"
    /\ pc' = "transition_weight"
    /\ call' = [op |-> "transition_weight", m1 |-> m1, m2 |-> m2,
                approx_dist |-> approx_dist]
    /\ LET unique_coverage ==
               (m1.end - m1.begin) + (m2.end - m2.begin) - mems_overlap_length(m1, m2)
           jump == Abs((m2.begin - m1.begin) - approx_dist)
           den == m1.match_count + m2.match_count
       IN  ret' = [unique_coverage |-> unique_coverage,
                   accepted |-> approx_dist < max_length /\ ~inversion,
                   num |-> IF jump # 0
                           THEN unique_coverage * alignment_match * 2
                                  - den * (alignment_gap_open
                                             + jump * alignment_gap_extension)
                           ELSE unique_coverage * alignment_match * 2,
                   den |-> den]
    /\ UNCHANGED <<mapper, ompVars>>

\* the last loop of MEMChainModel::MEMChainModel: vertexes are the vertexes
\* that are not redundant, in the order of approx_positions, each with the
\* begin and fragment of its MEM and its approx_position; rejected holds the
\* pairs <<from, to>> for which transition_weight answers -max.  The lists
\* next_cost and prev_cost of every vertex, as lists of vertex numbers.
connect_vertexes(vertexes, band_width, max_connections, rejected) ==
    LET n == Len(vertexes)
        \* v1 in the order of approx_positions, and for each v1 the v2 behind it
        all_pairs == [k \in 1..(n * n) |-> <<((k - 1) \div n) + 1, ((k - 1) % n) + 1>>]
        InBand(pair) ==
            /\ vertexes[pair[1]].approx_position < vertexes[pair[2]].approx_position
            /\ vertexes[pair[2]].approx_position - vertexes[pair[1]].approx_position
                  < band_width
        pairs == SelectSeq(all_pairs, InBand)
        Link(costs, from, to) ==
            IF <<from, to>> \in rejected THEN costs
            ELSE [next_cost |-> [costs.next_cost EXCEPT ![from] = Append(@, to)],
                  prev_cost |-> [costs.prev_cost EXCEPT ![to] = Append(@, from)]]
        Step(costs, pair) ==
            LET v1 == pair[1]
                v2 == pair[2]
            IN  IF Len(costs.next_cost[v1]) < max_connections
                   /\ Len(costs.prev_cost[v2]) < max_connections
                THEN IF vertexes[v1].fragment < vertexes[v2].fragment
                        \/ vertexes[v1].begin < vertexes[v2].begin
                     THEN Link(costs, v1, v2)
                     ELSE IF vertexes[v1].fragment > vertexes[v2].fragment
                             \/ vertexes[v1].begin > vertexes[v2].begin
                     THEN Link(costs, v2, v1)
                     ELSE costs
                ELSE costs
        RECURSIVE Upto(_)
        Upto(k) == IF k = 0
                   THEN [next_cost |-> [v \in 1..n |-> <<>>],
                         prev_cost |-> [v \in 1..n |-> <<>>]]
                   ELSE Step(Upto(k - 1), pairs[k])
    IN  Upto(Len(pairs))

\* the constructor links MaxVertexes vertexes that lie one approx_position
\* after the other
ConnectVertexes(begins, band_width, max_connections, rejected) ==
    /\ pc = "idle"
    /\ pc' = "connect_vertexes"
    /\ call' = [op |-> "connect_vertexes", begins |-> begins,
                max_connections |-> max_connections]
    /\ ret' = connect_vertexes([v \in 1..MaxVertexes |->
                                   [begin |-> begins[v], fragment |-> 1,
                                    approx_position |-> v]],
                               band_width, max_connections, rejected)
    /\ UNCHANGED <<mapper, ompVars>>

NextChain ==
    \/ MEMChainModel
    \/ MEMChainTraceback(MaxChains)
    \/ /\ pc = "idle"
       /\ \E begins \in [1..MaxVertexes -> 0..2], band_width \in {2, MaxVertexes},
             max_connections \in 1..2,
             rejected \in SUBSET {<<1, 2>>, <<2, 1>>, <<2, 3>>, <<3, 2>>} :
             ConnectVertexes(begins, band_width, max_connections, rejected)
    \/ /\ pc = "idle"
       /\ \E b1 \in 0..(MaxMemEnd - 1), b2 \in 0..(MaxMemEnd - 1),
             c1 \in 1..2, c2 \in 1..2, approx_dist \in {0, 2, 5}, inversion \in BOOLEAN :
             \E e1 \in (b1 + 1)..MaxMemEnd, e2 \in (b2 + 1)..MaxMemEnd :
                TransitionWeight([begin |-> b1, end |-> e1, fragment |-> 0, match_count |-> c1],
                                 [begin |-> b2, end |-> e2, fragment |-> 0, match_count |-> c2],
                                 MaxMemEnd, approx_dist, inversion)
    \/ Return

SpecChain == Init /\ [][NextChain]_vars

\* C11 as stated: each chain of one traceback call is traced from a vertex
\* score strictly lower than the one the chain before it was traced from.
C11_ScoresStrictlyDescend ==
    pc = "traceback" =>
        \A i \in 1..(Len(ret.scores) - 1) : ret.scores[i + 1] < ret.scores[i]

\* C11 amended: each chain of one traceback call is traced from a vertex
\* score that is not higher than the one the chain before it was traced
\* from; two chains in a row can be traced from equal scores.
C11_ScoresNeverAscend ==
    pc = "traceback" =>
        \A i \in 1..(Len(ret.scores) - 1) : ret.scores[i + 1] <= ret.scores[i]

\* witness of C11: three chains, the second traced from a lower score than
\* the first and the third from the same score as the second
C11_Witness ==
    /\ pc = "traceback"
    /\ Len(ret.scores) = 3
    /\ ret.scores[2] < ret.scores[1]
    /\ ret.scores[3] = ret.scores[2]

\* C12: a transition walked while one chain was emitted is not walked again
\* while a later chain of the same traceback call is emitted.
C12_TransitionsWalkedOnce ==
    pc = "traceback" =>
        \A i \in DOMAIN ret.walked : \A j \in DOMAIN ret.walked :
            i < j => ret.walked[i] \cap ret.walked[j] = {}

\* witness of C12: a paired traceback where a later chain walks a transition
\* into a vertex that an earlier chain already entered by another transition
C12_Witness ==
    /\ pc = "traceback"
    /\ call.paired
    /\ \E i \in DOMAIN ret.walked : \E j \in DOMAIN ret.walked :
          /\ i < j
          /\ \E e \in ret.walked[i] : \E f \in ret.walked[j] :
                e[2] = f[2] /\ e[1] # f[1]

\* C13: no vertex appears in two chains of one traceback call.
C13_ChainsShareNoVertex ==
    pc = "traceback" =>
        \A i \in DOMAIN ret.traces : \A j \in DOMAIN ret.traces :
            i < j => {ret.traces[i][k] : k \in DOMAIN ret.traces[i]}
                       \cap {ret.traces[j][k] : k \in DOMAIN ret.traces[j]} = {}

-----------------------------------------------------------------------------
(* SpecRescue: pair_rescue calls on a mapper that learns its fragment      *)
(* model from recorded pairs.                                              *)

\* one call of pair_rescue; the window around the likely position of the
\* mate holds the candidates inp.mate1 and inp.mate2
PairRescue(mate1, mate2, inp) ==
    /\ pc = "idle"
    /\ pc' = "pair_rescue"
    /\ call' = [op |-> "pair_rescue", mate1 |-> mate1, mate2 |-> mate2]
    /\ LET r == pair_rescue(mapper, [mate1 |-> mate1, mate2 |-> mate2], inp)
       IN  ret' = [rescued |-> r[1], mate1 |-> r[2].mate1, mate2 |-> r[2].mate2]
    /\ UNCHANGED <<mapper, ompVars>>

\* softclip_threshold (mapper.cpp:28)
softclip_threshold == 0

\* max_softclip_iterations (10 in the constructor)
max_softclip_iterations == 2

\* max_target_factor (mapper.cpp:40)
max_target_factor == 128

\* Mapper::resolve_softclips with an xg index
resolve_softclips(aln, realigned, give_up_at) ==
    LET \* the loop on an alignment given by its score, its two soft clips
        \* and whether it has a mapping.  realigned[i] is what align_to_graph
        \* returns in iteration i and give_up_at the iteration in which the
        \* extended graph has reached max_target_length (0: none).  The
        \* answer is the alignment left and, for every iteration entered,
        \* the score before it and the alignment after it.
        RECURSIVE SoftclipLoop(_, _, _, _)
        SoftclipLoop(cur, last_score, itr, entered) ==
            IF ~(/\ itr < max_softclip_iterations
                 /\ \/ cur.sc_start > softclip_threshold
                    \/ cur.sc_end > softclip_threshold)
            THEN [aln |-> cur, iterations |-> entered]
            ELSE LET cleared == [score |-> 0, sc_start |-> 0, sc_end |-> 0,
                                 mapped |-> FALSE]
                     new == realigned[itr + 1]
                 IN  IF max_target_factor # 0 /\ give_up_at = itr + 1
                     THEN [aln |-> cleared,
                           iterations |-> Append(entered, [before |-> last_score,
                                                           aln |-> cleared])]
                     ELSE IF last_score = new.score
                     THEN [aln |-> new,
                           iterations |-> Append(entered, [before |-> last_score,
                                                           aln |-> new])]
                     ELSE SoftclipLoop(new, new.score, itr + 1,
                                       Append(entered, [before |-> last_score,
                                                        aln |-> new]))
    IN  IF ~aln.mapped THEN [aln |-> aln, iterations |-> <<>>]
        ELSE SoftclipLoop(aln, aln.score, 0, <<>>)

\* one call of resolve_softclips
ResolveSoftclips(aln, realigned, give_up_at) ==
    /\ pc = "idle"
    /\ pc' = "resolve_softclips"
    /\ call' = [op |-> "resolve_softclips", aln |-> aln]
    /\ ret' = resolve_softclips(aln, realigned, give_up_at)
    /\ UNCHANGED <<mapper, ompVars>>

\* one call of Mapper::pair_consistent
PairConsistent(aln1, aln2) ==
    /\ pc = "idle"
    /\ pc' = "pair_consistent"
    /\ call' = [op |-> "pair_consistent", aln1 |-> aln1, aln2 |-> aln2]
    /\ ret' = pair_consistent(mapper, aln1, aln2)
    /\ UNCHANGED <<mapper, ompVars>>

\* the mates are a perfect alignment, a poor one, or unmapped; the window
\* holds nothing, a candidate as good as the poor one, or a perfect one;
\* pair_consistent is asked about a first mate at 10 and a second mate one or
\* two bases behind it, each on either strand, or unmapped; resolve_softclips
\* gets an alignment with or without soft clips and re-alignments of lower,
\* equal and higher scores
NextRescue ==
    \/ \E aln1_is_rev \in BOOLEAN : Record(2, aln1_is_rev, FALSE)
    \/ \E reads \in PairReads, rev1 \in BOOLEAN, rev2 \in BOOLEAN,
          pos2 \in {0, 11, 12} :
          PairConsistent(
              Aligned(reads[1], [FirstHit EXCEPT !.is_reverse = rev1]),
              Aligned(reads[2],
                      IF pos2 = 0 THEN NoHit
                      ELSE [PairHit(2, pos2, 100, "p" :> pos2)
                               EXCEPT !.is_reverse = rev2]))
    \/ \E first_score \in 1..2, sc_start \in 0..1, sc_end \in 0..1,
          mapped \in BOOLEAN,
          give_up_at \in 0..max_softclip_iterations :
          \E realigned \in [1..max_softclip_iterations ->
                               {[score |-> s, sc_start |-> c, sc_end |-> 0,
                                 mapped |-> TRUE] : s \in 1..3, c \in 0..1}] :
             ResolveSoftclips([score |-> first_score, sc_start |-> sc_start,
                               sc_end |-> sc_end, mapped |-> mapped],
                              realigned, give_up_at)
    \/ LET PoorHit == PairHit(1, 13, 60, "p" :> 13)
           Mates(read) == {Aligned(read, FirstHit), Aligned(read, PoorHit),
                           Unmapped(read)}
       IN  \E mate1 \in Mates(Read("r1", ShortReadLength, FALSE)),
              mate2 \in Mates(Read("r2", ShortReadLength, FALSE)),
              found1 \in {NoHit, PoorHit, FirstHit},
              found2 \in {NoHit, PoorHit, NearHit} :
              PairRescue(mate1, mate2, [mate1 |-> found1, mate2 |-> found2])
    \/ Return

SpecRescue == Init /\ [][NextRescue]_vars

\* C14: pair_rescue replaces the alignment of a mate only by a rescued
\* alignment of a strictly higher score than that mate had; otherwise it
\* returns false and both mates are as they were.
C14_RescueOnlyImproves ==
    call.op = "pair_rescue" =>
        /\ ret.mate1 # call.mate1 => ret.mate1.score > call.mate1.score
        /\ ret.mate2 # call.mate2 => ret.mate2.score > call.mate2.score
        /\ ret.rescued => (ret.mate1 # call.mate1 \/ ret.mate2 # call.mate2)
        /\ ~ret.rescued => (ret.mate1 = call.mate1 /\ ret.mate2 = call.mate2)

\* witness of C14: the poorly aligned second mate was replaced by a rescued
\* alignment of a higher score
C14_Witness ==
    /\ call.op = "pair_rescue"
    /\ ret.rescued
    /\ call.mate2.score = 1
    /\ ret.mate2.score = 2
    /\ ret.mate1 = call.mate1

-----------------------------------------------------------------------------
(* Unmapped results of align and align_multi (checked under SpecMulti).    *)

\* C15: every alignment without a path that align or align_multi hands back
\* carries the sequence of the read, score 0, identity 0 and mapping
\* quality 0.
C15_UnmappedCarryNothing ==
    call.op \in {"align_multi", "align"} =>
        \A i \in 1..Len(ret) :
            ~has_path(ret[i]) =>
                /\ ret[i].sequence = call.read.sequence
                /\ ret[i].score = 0
                /\ ret[i].identity = 0
                /\ ret[i].mapping_quality = 0

-----------------------------------------------------------------------------
(* Cancellation (checked under SpecPair).                                  *)

\* C16: when the timer trips at a checkpoint of an align_paired_multi call,
\* the fragment-length buffers, the cached model values, fragment_size and
\* the retry queue of the mapper are as they were before the call.
C16_CancelledCallWritesNothing ==
    [][pc' = "cancelled" =>
          /\ mapper'.fragment_lengths = mapper.fragment_lengths
          /\ mapper'.fragment_orientations = mapper.fragment_orientations
          /\ mapper'.fragment_directions = mapper.fragment_directions
          /\ mapper'.cached_fragment_length_mean = mapper.cached_fragment_length_mean
          /\ mapper'.cached_fragment_length_stdev = mapper.cached_fragment_length_stdev
          /\ mapper'.cached_fragment_orientation = mapper.cached_fragment_orientation
          /\ mapper'.cached_fragment_direction = mapper.cached_fragment_direction
          /\ mapper'.since_last_fragment_length_estimate
                 = mapper.since_last_fragment_length_estimate
          /\ mapper'.fragment_size = mapper.fragment_size
          /\ mapper'.imperfect_pairs_to_retry = mapper.imperfect_pairs_to_retry]_vars

\* witness of C16: the timer tripped in pair_rescue, on a mapper that has a
\* fragment model and a pair waiting to be retried
C16_Witness ==
    /\ pc = "cancelled"
    /\ call.at = "pair_rescue"
    /\ mapper.fragment_size # 0
    /\ mapper.imperfect_pairs_to_retry # <<>>

-----------------------------------------------------------------------------
(* Sensitivity reattempts (checked under SpecPair).                        *)

\* C17: a pair is not mapped again with MEMs shortened by
\* kmer_sensitivity_step more often than max_attempts allows.
C17_ReattemptsWithinMaxAttempts ==
    pc = "align_paired_multi" => ret.reattempts <= mapper.max_attempts

-----------------------------------------------------------------------------
(* MEM finding.                                                            *)
(* A MEM is kept as its interval [begin, end) of the read, the number of   *)
(* index positions of its range (count, what gcsa->count answers and       *)
(* gcsa->locate lists), match_count and nodes.  The search itself is an    *)
(* input: the MEMs in the order they were found and the sub-MEMs, each     *)
(* with the indexes of its parents.                                        *)

\* the largest number of occurrences of a MEM
MaxMatchCount == 3

\* the end of Mapper::find_mems_deep: match counts, node lists, the sub-MEMs
\* appended, everything sorted along the read; the set of lists std::sort
\* can leave
find_mems_deep(mems, sub_mems, hit_max, reseed_length) ==
    LET Located(count, match_count) ==
            IF match_count > 0 /\ (hit_max = 0 \/ match_count <= hit_max)
            THEN 1..count ELSE {}
        filled == [i \in DOMAIN mems |->
                      [begin |-> mems[i].begin, end |-> mems[i].end,
                       match_count |-> mems[i].count,
                       nodes |-> Located(mems[i].count, mems[i].count),
                       parents |-> <<>>]]
        sub_filled ==
            [i \in DOMAIN sub_mems |->
                LET match_count ==
                        sub_mems[i].count
                          - SumSeq([k \in DOMAIN sub_mems[i].parents |->
                                       filled[sub_mems[i].parents[k]].match_count])
                IN  [begin |-> sub_mems[i].begin, end |-> sub_mems[i].end,
                     match_count |-> match_count,
                     nodes |-> Located(sub_mems[i].count, match_count),
                     parents |-> sub_mems[i].parents]]
        all == IF reseed_length # 0 THEN filled \o sub_filled ELSE filled
        Before(m1, m2) ==
            IF m1.begin < m2.begin THEN TRUE
            ELSE IF m1.begin = m2.begin THEN m1.end < m2.end ELSE FALSE
    IN  {s \in {[i \in 1..Len(all) |-> all[f[i]]] : f \in Orders(Len(all))} :
            \A i, j \in 1..Len(s) : i < j => ~Before(s[j], s[i])}

\* one call of find_mems_deep on a read of four bases
FindMemsDeep(mems, sub_mems, hit_max, reseed_length) ==
    /\ pc = "idle"
    /\ \A i \in DOMAIN sub_mems :
          /\ reseed_length # 0
          /\ \A k \in DOMAIN sub_mems[i].parents :
                /\ sub_mems[i].parents[k] \in DOMAIN mems
                /\ sub_mems[i].begin >= mems[sub_mems[i].parents[k]].begin
          /\ sub_mems[i].count
                > SumSeq([k \in DOMAIN sub_mems[i].parents |->
                             mems[sub_mems[i].parents[k]].count])
    /\ pc' = "find_mems_deep"
    /\ call' = [op |-> "find_mems_deep", hit_max |-> hit_max]
    /\ \E found \in find_mems_deep(mems, sub_mems, hit_max, reseed_length) :
          ret' = found
    /\ UNCHANGED <<mapper, ompVars>>

\* the longest read and the longest indexed text of the backward search
MaxSearchRead == 3

MaxTextLength == 2

\* The GCSA index of a text: a range is the set of the text positions at
\* which the pattern matched so far begins (position Len(text) + 1 is the
\* empty suffix), full_range is all of them.
\* gcsa->LF(range, c): the positions one to the left that hold c
LF(text, range, c) ==
    {p - 1 : p \in {q \in range : q > 1 /\ text[q - 1] = c}}

\* lcp->parent(range): the parent of the suffix tree node of the range, as
\* its range and its string depth lcp
parent(text, range) ==
    LET full_range == 1..(Len(text) + 1)
        Label(p, d) == SubSeq(text, p, p + d - 1)
        CommonAt(d) ==
            \A p, q \in range :
                p + d - 1 <= Len(text) /\ q + d - 1 <= Len(text)
                    /\ Label(p, d) = Label(q, d)
        depth == CHOOSE d \in 0..Len(text) :
                    CommonAt(d) /\ \A e \in (d + 1)..Len(text) : ~CommonAt(e)
        first == CHOOSE p \in range : TRUE
        Occ(j) == {q \in full_range :
                      q + j - 1 <= Len(text) /\ Label(q, j) = Label(first, j)}
        shorter == {j \in 0..(depth - 1) : Occ(j) # range}
    IN  IF shorter = {} THEN [range |-> full_range, lcp |-> 0]
        ELSE LET j == CHOOSE k \in shorter : \A l \in shorter : l <= k
             IN  [range |-> Occ(j), lcp |-> j]

\* mutant: the test for a match of no character is left out
AlwaysJumps(cursor, match_end) == FALSE

\* if (cursor + 1 == match.end): the search failed on the first character
SingleCharacterMismatch(cursor, match_end) == cursor + 1 = match_end

\* find_mems_deep up to its backward search loop, without reseeding.  The
\* read is seq[1..Len(seq)]; cursor is the index the iterator points to and
\* 0 when it is in front of seq_begin, match.end the index of the iterator;
\* jumps counts the steps to a parent node.
BackwardSearch(seq, text, max_mem_length) ==
    /\ pc = "idle"
    /\ pc' = "searching"
    /\ call' = [op |-> "backward_search", seq |-> seq, text |-> text,
                max_mem_length |-> max_mem_length,
                cursor |-> Len(seq),
                last_range |-> 1..(Len(text) + 1),
                match |-> [begin |-> Len(seq), end |-> Len(seq) + 1,
                           range |-> 1..(Len(text) + 1)],
                prev_iter_jumped_lcp |-> FALSE,
                mems |-> <<>>, jumps |-> 0]
    /\ ret' = <<>>
    /\ UNCHANGED <<mapper, ompVars>>

\* one iteration of while (cursor >= seq_begin), or the end of the loop
BackwardSearchStep ==
    /\ pc = "searching"
    /\ call.op = "backward_search"
    /\ LET cursor == call.cursor
           match == call.match
           full_range == 1..(Len(call.text) + 1)
           Mem(range) == [begin |-> cursor + 1, end |-> match.end, range |-> range]
           stepped == LF(call.text, match.range, call.seq[cursor])
           up == parent(call.text, match.range)
       IN  IF cursor < 1
           THEN /\ pc' = "searched"
                /\ call' = call
                /\ ret' = call.mems
           ELSE /\ pc' = pc
                /\ ret' = ret
                /\ call' =
                   IF call.seq[cursor] = "N"
                   THEN [call EXCEPT
                           !.mems = IF match.end - (cursor + 1) >= min_mem_length
                                    THEN Append(@, Mem(match.range)) ELSE @,
                           !.match = [begin |-> cursor + 1, end |-> cursor,
                                      range |-> full_range],
                           !.cursor = cursor - 1,
                           !.prev_iter_jumped_lcp = FALSE]
                   ELSE IF \/ stepped = {}
                           \/ /\ call.max_mem_length # 0
                              /\ match.end - cursor > call.max_mem_length
                           \/ match.end - cursor > gcsa_order
                   THEN IF SingleCharacterMismatch(cursor, match.end)
                        THEN [call EXCEPT
                                !.last_range = match.range,
                                !.mems = IF match.end - (cursor + 1) >= min_mem_length
                                         THEN Append(@, Mem(match.range)) ELSE @,
                                !.match = [begin |-> cursor + 1, end |-> cursor,
                                           range |-> full_range],
                                !.cursor = cursor - 1,
                                !.prev_iter_jumped_lcp = FALSE]
                        ELSE [call EXCEPT
                                !.last_range = match.range,
                                !.mems = IF /\ match.end - (cursor + 1) >= min_mem_length
                                            /\ ~call.prev_iter_jumped_lcp
                                         THEN Append(@, Mem(match.range)) ELSE @,
                                !.match = [begin |-> cursor + 1,
                                           end |-> cursor + 1 + up.lcp,
                                           range |-> up.range],
                                !.prev_iter_jumped_lcp = TRUE,
                                !.jumps = @ + 1]
                   ELSE [call EXCEPT
                           !.last_range = match.range,
                           !.match = [match EXCEPT !.range = stepped],
                           !.cursor = cursor - 1,
                           !.prev_iter_jumped_lcp = FALSE]
    /\ UNCHANGED <<mapper, ompVars>>

\* the search finds the MEM that ends the read first; a sub-MEM lists the
\* MEM it was found in and then every earlier MEM that starts no later
NextMems ==
    \/ \E c1 \in 1..MaxMatchCount, c2 \in 1..MaxMatchCount,
          cs \in 2..(2 * MaxMatchCount + 1), hit_max \in {0, 2},
          reseed_length \in {0, 2} :
          \E mems \in {<<[begin |-> 0, end |-> 4, count |-> c1]>>,
                        <<[begin |-> 1, end |-> 4, count |-> c1],
                          [begin |-> 0, end |-> 3, count |-> c2]>>} :
             \E sub_mems \in {<<>>,
                               <<[begin |-> 2, end |-> 4, count |-> cs,
                                  parents |-> <<1>>]>>,
                               <<[begin |-> 1, end |-> 3, count |-> cs,
                                  parents |-> <<2, 1>>]>>} :
                FindMemsDeep(mems, sub_mems, hit_max, reseed_length)
    \/ \E n \in 1..MaxSearchRead, k \in 0..MaxTextLength, max_mem_length \in {0, 2} :
          \E seq \in [1..n -> {"A", "C", "N"}], text \in [1..k -> {"A", "C"}] :
             BackwardSearch(seq, text, max_mem_length)
    \/ BackwardSearchStep
    \/ Return

SpecMems == Init /\ [][NextMems]_vars

\* the loop goes on while it can
SpecMemsFair == SpecMems /\ WF_vars(BackwardSearchStep)

\* C18: every MEM and every sub-MEM that find_mems_deep returns has a
\* match_count that is not below the number of graph positions stored in it.
C18_MatchCountCoversNodes ==
    call.op = "find_mems_deep" =>
        \A i \in 1..Len(ret) : ret[i].match_count >= Cardinality(ret[i].nodes)

-----------------------------------------------------------------------------
(* BlockedGzipOutputStream (blocked_gzip_output_stream.cpp).               *)
(* The stream object is kept in call: buffer, backed_up, byte_count and    *)
(* know_offset are its members, handle is the list of bytes the BGZF       *)
(* writer has been given by bgzf_write.  A byte is named by its number in  *)
(* the order in which Next() handed the bytes out; handed counts them and  *)
(* kept lists the bytes of the earlier buffers that were not backed up.    *)
(* The BGZF writer accepts every write.                                    *)

\* the size of the buffer Next() hands out (4096 in the source)
BufferSize == 2

\* the number of calls made on one stream
MaxStreamCalls == 4

\* the bytes of the current buffer that are not backed up
NotBackedUp(s) == SubSeq(s.buffer, 1, Len(s.buffer) - s.backed_up)

\* BlockedGzipOutputStream::flush
flush(s) ==
    LET outstanding == Len(s.buffer) - s.backed_up
    IN  IF outstanding > 0
        THEN [s EXCEPT !.handle = @ \o SubSeq(s.buffer, 1, outstanding),
                       !.byte_count = @ + outstanding]
        ELSE s

\* the constructors: nothing buffered, nothing counted
BlockedGzipOutputStream(know_offset) ==
    /\ pc = "idle"
    /\ pc' = "stream"
    /\ call' = [op |-> "BlockedGzipOutputStream", handle |-> <<>>,
                buffer |-> <<>>, backed_up |-> 0, byte_count |-> 0,
                know_offset |-> know_offset, handed |-> 0, kept |-> <<>>,
                calls |-> 0]
    /\ ret' = <<>>
    /\ UNCHANGED <<mapper, ompVars>>

\* BlockedGzipOutputStream::Next; the caller then fills the buffer
StreamNext ==
    /\ pc = "stream"
    /\ call.calls < MaxStreamCalls
    /\ LET flushed == flush(call)
       IN  call' = [flushed EXCEPT
                       !.op = "Next",
                       !.buffer = [i \in 1..BufferSize |-> flushed.handed + i],
                       !.backed_up = 0,
                       !.handed = @ + BufferSize,
                       !.kept = @ \o NotBackedUp(call),
                       !.calls = @ + 1]
    /\ ret' = TRUE
    /\ UNCHANGED <<pc, mapper, ompVars>>

\* BlockedGzipOutputStream::BackUp, called as the interface allows: right
\* after Next(), with no more than the size of its buffer
StreamBackUp(count) ==
    /\ pc = "stream"
    /\ call.calls < MaxStreamCalls
    /\ call.op = "Next"
    /\ call.backed_up + count <= Len(call.buffer)
    /\ call' = [call EXCEPT !.op = "BackUp", !.backed_up = @ + count,
                            !.calls = @ + 1]
    /\ ret' = <<>>
    /\ UNCHANGED <<pc, mapper, ompVars>>

\* BlockedGzipOutputStream::ByteCount
StreamByteCount ==
    /\ pc = "stream"
    /\ call.calls < MaxStreamCalls
    /\ call' = [call EXCEPT !.op = "ByteCount", !.calls = @ + 1]
    /\ ret' = call.byte_count
    /\ UNCHANGED <<pc, mapper, ompVars>>

\* BlockedGzipOutputStream::Tell; the virtual offset is given as the number
\* of bytes the BGZF writer has taken
StreamTell ==
    /\ pc = "stream"
    /\ call.calls < MaxStreamCalls
    /\ LET flushed == IF call.know_offset THEN flush(call) ELSE call
       IN  /\ call' = [flushed EXCEPT !.op = "Tell", !.calls = @ + 1]
           /\ ret' = IF call.know_offset THEN Len(flushed.handle) ELSE -1
    /\ UNCHANGED <<pc, mapper, ompVars>>

\* BlockedGzipOutputStream::~BlockedGzipOutputStream
StreamDestroy ==
    /\ pc = "stream"
    /\ pc' = "destroyed"
    /\ call' = [flush(call) EXCEPT !.op = "~BlockedGzipOutputStream"]
    /\ ret' = <<>>
    /\ UNCHANGED <<mapper, ompVars>>

NextStream ==
    \/ \E know_offset \in BOOLEAN : BlockedGzipOutputStream(know_offset)
    \/ StreamNext
    \/ \E count \in 0..BufferSize : StreamBackUp(count)
    \/ StreamByteCount
    \/ StreamTell
    \/ StreamDestroy
    \/ Return

SpecStream == Init /\ [][NextStream]_vars

\* C19: whatever Next, BackUp and Tell calls are made, the BGZF writer is
\* given the bytes of the Next() buffers that were not backed up, each once
\* and in order (all of them once the stream is destroyed), and ByteCount()
\* is the number of those bytes written so far.
C19_BytesWrittenOnceInOrder ==
    pc \in {"stream", "destroyed"} =>
        LET due == call.kept \o NotBackedUp(call)
            written == {call.handle[i] : i \in 1..Len(call.handle)}
        IN  /\ Len(call.handle) <= Len(due)
            /\ call.handle = SubSeq(due, 1, Len(call.handle))
            /\ pc = "destroyed" => call.handle = due
            /\ call.op = "ByteCount" => ret = Cardinality(written)

-----------------------------------------------------------------------------
(* SpecBand: the split of a long read into bands.                          *)
(* align_multi_internal hands a read to align_banded when it is longer     *)
(* than band_width; align_banded rounds band_width up to a multiple of 4,  *)
(* asserts that the read is longer than that, and chooses div and          *)
(* segment_size.  A build with assertions stops at a failed assert, a      *)
(* build without them goes on: when segment_size is larger than the read,  *)
(* read.sequence().size() - segment_size wraps, the last band is cut with  *)
(* substr(off) past the end of the read and std::out_of_range ends the     *)
(* call; otherwise the bands are cut.                                      *)

\* the longest read and the widest band of SpecBand
MaxReadLength == 40

MaxBandWidth == 16

SplitIntoBands(read_length, band_width_arg) ==
    /\ pc = "idle"
    /\ read_length > band_width_arg
    /\ LET band_width == RoundUpTo4(band_width_arg)
           div == BandDiv(read_length, band_width, 2)
           segment_size == RoundUpTo4(read_length \div div)
       IN  \/ /\ read_length <= band_width
              /\ pc' = "aborted"
              /\ call' = [op |-> "align_banded", read_length |-> read_length,
                          band_width |-> band_width]
              /\ ret' = <<>>
           \/ /\ segment_size > read_length
              /\ pc' = "out_of_range"
              /\ call' = [op |-> "align_banded", read_length |-> read_length,
                          band_width |-> band_width]
              /\ ret' = <<>>
           \/ /\ segment_size <= read_length
              /\ pc' = "align_banded"
              /\ call' = [op |-> "align_banded", read_length |-> read_length,
                          band_width |-> band_width]
              /\ ret' = [div |-> div, segment_size |-> segment_size,
                         to_strip |-> BandLayout(read_length, band_width)]
    /\ UNCHANGED <<mapper, ompVars>>

\* the alignments a band of four bases can come back with: none (the band
\* itself, unmapped) or one of score 1 or 2 that starts at 1, 5 or 9; an
\* alignment that starts at 5 continues one that starts at 1
BandAlignments ==
    {Unmapped(Read("band", ShortReadLength, FALSE))} \cup
    {Aligned(Read("band", ShortReadLength, FALSE), Hit(s, 0, pos, 100)) :
        s \in 1..2, pos \in {1, 5, 9}}

\* Mapper::resolve_banded_multi on the alignments of two bands, each list
\* ending with the unmapped band (an alignment below min_identity has been
\* replaced by the unmapped band as well); scores is the table of the DP,
\* alns what the walk along the back pointers collects
ResolveBandedMulti(multi_alns) ==
    /\ pc = "idle"
    /\ pc' = "resolve_banded_multi"
    /\ call' = [op |-> "resolve_banded_multi", multi_alns |-> multi_alns]
    /\ ret' = [scores |-> [i \in 1..Len(multi_alns) |-> BandScores(multi_alns, i)],
               alns |-> resolve_banded_multi(multi_alns)]
    /\ UNCHANGED <<mapper, ompVars>>

NextBand ==
    \/ \E read_length \in 1..MaxReadLength, band_width \in 1..MaxBandWidth :
          SplitIntoBands(read_length, band_width)
    \/ \E a1 \in BandAlignments, b1 \in BandAlignments,
          a2 \in BandAlignments, b2 \in BandAlignments :
          ResolveBandedMulti(<<<<a1, b1, Unmapped(a1)>>, <<a2, b2, Unmapped(a2)>>>>)
    \/ Return

SpecBand == Init /\ [][NextBand]_vars

\* C20 as stated: for every read longer than band_width, the div that
\* align_banded chooses has ceil(read_length / div) <= band_width, band_width
\* being the rounded one.
C20_CeilingWithinBandWidth ==
    pc = "align_banded" =>
        (call.read_length + ret.div - 1) \div ret.div <= call.band_width

\* C20 (amended): for every read longer than band_width, the div that
\* align_banded chooses has floor(read_length / div) <= band_width,
\* band_width being the rounded one.
C20_FloorWithinBandWidth ==
    pc = "align_banded" =>
        call.read_length \div ret.div <= call.band_width

\* a read of 17 bases and a band width of 8: div is 2, the floor is 8 and the
\* ceiling 9
C20_Witness ==
    /\ pc = "align_banded"
    /\ call.read_length = 17
    /\ call.band_width = 8
    /\ ret.div = 2
    /\ (call.read_length + ret.div - 1) \div ret.div > call.band_width


\* C21: for every read that triggers banded alignment, the 2 * div - 1 bands
\* with their trims applied cover the read once and in order: every trim is
\* non-negative, the two trims of a band are no larger than the band, each
\* trimmed band starts where the one before it ends, the first at 0 and the
\* last ending at the end of the read.
C21_TrimmedBandsTileRead ==
    pc = "align_banded" =>
        LET bands == ret.to_strip
            From(i) == bands[i].off + bands[i].first
            To(i) == bands[i].off + bands[i].length - bands[i].second
        IN  /\ Len(bands) = 2 * ret.div - 1
            /\ \A i \in 1..Len(bands) :
                  /\ bands[i].first >= 0
                  /\ bands[i].second >= 0
                  /\ bands[i].first + bands[i].second <= bands[i].length
            /\ From(1) = 0
            /\ \A i \in 1..(Len(bands) - 1) : To(i) = From(i + 1)
            /\ To(Len(bands)) = call.read_length
            /\ SumSeq([i \in 1..Len(bands) |-> To(i) - From(i)]) = call.read_length


\* C22: the back pointer of a mapped alignment of a band is the index, in the
\* list of the band before, of the entry it continues: when mapped entries of
\* that list end next to its start, the first of them with the highest
\* cumulative score, which is then added to its own score; when none does,
\* the best entry of that list if it is mapped, else the unmapped one.
C22_BackPointerIsPredecessor ==
    pc = "resolve_banded_multi" =>
        \A i \in 2..Len(call.multi_alns) :
            \A c \in 1..Len(call.multi_alns[i]) :
                LET aln == call.multi_alns[i][c]
                    prev_alns == call.multi_alns[i - 1]
                    prev_scores == ret.scores[i - 1]
                    entry == ret.scores[i][c]
                    adjacent ==
                        {j \in 1..Len(prev_alns) :
                            /\ prev_alns[j].score # 0
                            /\ adjacent_positions(prev_alns[j].path.end, aln.path.pos)}
                IN  aln.score # 0 =>
                        IF adjacent # {}
                        THEN /\ entry.parent \in adjacent
                             /\ \A j \in adjacent :
                                   prev_scores[j].score <= prev_scores[entry.parent].score
                             /\ entry.score = prev_scores[entry.parent].score + aln.score
                        ELSE /\ \A j \in 1..Len(prev_scores) :
                                   prev_scores[j].score <= prev_scores[entry.parent].score
                                      \/ prev_alns[entry.parent].score = 0
                             /\ entry.score = prev_scores[entry.parent].score


\* C23: the unique_coverage of a transition is the number of read positions
\* that m1 or m2 covers: the two lengths minus the number of positions the
\* two MEMs have in common; it is never negative.
C23_UniqueCoverageCountsPositions ==
    pc = "transition_weight" =>
        LET Covered(mem) == mem.begin..(mem.end - 1)
        IN  /\ ret.unique_coverage
                  = Cardinality(Covered(call.m1) \cup Covered(call.m2))
            /\ ret.unique_coverage >= 0


\* C24: after the constructor, no vertex has more than max_connections
\* entries in next_cost or in prev_cost.
C24_ConnectionsWithinMax ==
    pc = "connect_vertexes" =>
        \A v \in DOMAIN ret.next_cost :
            /\ Len(ret.next_cost[v]) <= call.max_connections
            /\ Len(ret.prev_cost[v]) <= call.max_connections

\* C25: every call of record_fragment_configuration leaves the three
\* fragment buffers with the same size, min(number of recorded samples,
\* fragment_length_cache_size), the sample of the call at their front and
\* behind it the samples they held before, in order, the oldest dropped
\* when the buffers were full.
C25_BuffersHoldNewestSamples ==
    [][mapper'.n_recorded = mapper.n_recorded + 1 =>
          LET size == Min(mapper'.n_recorded, fragment_length_cache_size)
              Newest(buffer, sample) == SubSeq(<<sample>> \o buffer, 1, size)
              same_orientation == (call'.aln1_is_rev = call'.aln2_is_rev)
              same_direction ==
                  \/ call'.aln1_is_rev /\ call'.length <= 0
                  \/ ~call'.aln1_is_rev /\ call'.length >= 0
          IN  /\ Len(mapper'.fragment_lengths) = size
              /\ Len(mapper'.fragment_orientations) = size
              /\ Len(mapper'.fragment_directions) = size
              /\ mapper'.fragment_lengths
                    = Newest(mapper.fragment_lengths, Abs(call'.length))
              /\ mapper'.fragment_orientations
                    = Newest(mapper.fragment_orientations, same_orientation)
              /\ mapper'.fragment_directions
                    = Newest(mapper.fragment_directions, same_direction)]_vars

\* more samples recorded than the buffers hold, the last two of different
\* lengths and orientations
C25_Witness ==
    /\ call.op = "record"
    /\ mapper.n_recorded > fragment_length_cache_size
    /\ Len(mapper.fragment_lengths) = fragment_length_cache_size
    /\ mapper.fragment_lengths[1] # mapper.fragment_lengths[2]
    /\ mapper.fragment_orientations[1] # mapper.fragment_orientations[2]

\* C26: a call of align_paired_multi made in retrying mode does not push
\* its pair onto imperfect_pairs_to_retry, in any strategy, also when the
\* call goes through the re-attempt with shorter MEMs.
C26_RetryingNeverPushes ==
    pc = "align_paired_multi" /\ call.retrying => ~ret.pushed

\* C29: pair_consistent answers true only for two mates whose strands, each
\* taken from the first mapping of its own alignment, agree with
\* cached_fragment_orientation: the same strand when the model says same
\* orientation, opposite strands when it does not.
C29_ConsistentAgreesWithOrientation ==
    call.op = "pair_consistent" /\ ret =>
        (mapper.cached_fragment_orientation
            <=> call.aln1.path.is_reverse = call.aln2.path.is_reverse)

\* C27: resolve_softclips enters its loop at most max_softclip_iterations
\* times, and it enters a further iteration only when the alignment of the
\* iteration before still has a soft clip above softclip_threshold and a
\* score greater than the score before that iteration.
C27_StopsWhenScoreDoesNotImprove ==
    call.op = "resolve_softclips" =>
        /\ Len(ret.iterations) <= max_softclip_iterations
        /\ \A i \in 1..(Len(ret.iterations) - 1) :
              /\ \/ ret.iterations[i].aln.sc_start > softclip_threshold
                 \/ ret.iterations[i].aln.sc_end > softclip_threshold
              /\ ret.iterations[i].aln.score > ret.iterations[i].before

\* C28: the backward search loop of find_mems_deep ends for every read over
\* A, C, N and every indexed text: each iteration moves the cursor one step
\* to the left or leaves it and makes match.end smaller, and an iteration
\* that starts with cursor + 1 = match.end moves the cursor.
C28_BackwardSearchTerminates ==
    /\ [][/\ pc = "searching" /\ call.op = "backward_search"
          /\ pc' = "searching" /\ call'.op = "backward_search"
          => /\ \/ call'.cursor = call.cursor - 1
                \/ /\ call'.cursor = call.cursor
                   /\ call'.match.end < call.match.end
             /\ call.cursor + 1 = call.match.end
                   => call'.cursor = call.cursor - 1]_vars
    /\ [](pc = "searching" => <>(pc # "searching"))

\* a search that ended after two steps to a parent node, the second of them
\* to the root, and a mismatch on the first character of a match
C28_Witness ==
    /\ pc = "searched"
    /\ call.jumps >= 2
    /\ \E i \in 1..Len(ret) : ret[i].begin = ret[i].end

-----------------------------------------------------------------------------
(* MinimizerIndex (minimizer.cpp).                                         *)
(* The index is kept in call: the header fields keys, capacity, max_keys,  *)
(* values, max_values, unique and frequent, and hash_table with is_pointer *)
(* as a list of cells, cell offset + 1 for the offset of the source.  A    *)
(* cell holds its key and the set of its values: the one value of a cell   *)
(* that is no pointer, the vector of a cell that is.  Keys are 1..MaxKeys, *)
(* NO_KEY is 0 and NO_VALUE is 0.  hash is any function of the keys;       *)
(* inserted lists the keys that insert was called with.  INITIAL_CAPACITY  *)
(* and MAX_LOAD_FACTOR come from minimizer.hpp; the load factor is 77/100. *)

\* INITIAL_CAPACITY is 2^InitialCapacityBits
InitialCapacityBits == 1

\* the keys and the number of insert calls on one index
MaxKeys == 3

MaxInserts == 3

\* empty_cell()
empty_cell == [key |-> 0, occs |-> {0}, is_pointer |-> FALSE]

\* MinimizerIndex::insert(key, pos) with insert(key, pos, offset), append,
\* contains, clear(offset) and rehash; code is encode(pos)
insert(x, key, code) ==
    LET capacity == x.capacity
        Hash(k) == x.hash[k]
        MaxKeysOf(c) == (c * 77) \div 100
        \* MinimizerIndex::rehash; Place puts the cell of offset i - 1 into
        \* the new table
        rehash(y) ==
            LET Place(new_hash_table, i) ==
                    LET cell == y.hash_table[i]
                        size == Len(new_hash_table)
                        Try[offset \in 0..(size - 1), attempt \in 0..size] ==
                            IF attempt >= size THEN new_hash_table
                            ELSE IF new_hash_table[offset + 1].key = 0
                            THEN [new_hash_table EXCEPT ![offset + 1] = cell]
                            ELSE Try[(offset + attempt + 1) % capacity, attempt + 1]
                    IN  IF cell.key = 0 THEN new_hash_table
                        ELSE Try[Hash(cell.key) % size, 0]
                Moved[i \in 0..capacity] ==
                    IF i = 0 THEN [j \in 1..(2 * capacity) |-> empty_cell]
                    ELSE Place(Moved[i - 1], i)
            IN  [y EXCEPT !.hash_table = Moved[capacity],
                          !.capacity = 2 * capacity,
                          !.max_keys = MaxKeysOf(2 * capacity)]
        InsertAt(offset) ==
            LET y == [x EXCEPT
                        !.hash_table[offset + 1] =
                            [key |-> key, occs |-> {code}, is_pointer |-> FALSE],
                        !.keys = @ + 1, !.values = @ + 1, !.unique = @ + 1]
            IN  IF y.keys > y.max_keys THEN rehash(y) ELSE y
        AppendAt(offset) ==
            LET cell == x.hash_table[offset + 1]
            IN  IF code \in cell.occs THEN x
                ELSE IF cell.is_pointer
                THEN IF Cardinality(cell.occs) + 1 > x.max_values
                     THEN [x EXCEPT !.values = @ - Cardinality(cell.occs),
                                    !.frequent = @ + 1,
                                    !.hash_table[offset + 1] =
                                        [cell EXCEPT !.occs = {0},
                                                     !.is_pointer = FALSE]]
                     ELSE [x EXCEPT !.hash_table[offset + 1].occs = @ \cup {code},
                                    !.values = @ + 1]
                ELSE IF x.max_values < 2
                THEN [x EXCEPT !.unique = @ - 1, !.values = @ - 1,
                               !.frequent = @ + 1,
                               !.hash_table[offset + 1].occs = {0}]
                ELSE [x EXCEPT !.unique = @ - 1, !.values = @ + 1,
                               !.hash_table[offset + 1] =
                                   [cell EXCEPT !.occs = @ \cup {code},
                                                !.is_pointer = TRUE]]
        Probe[offset \in 0..(capacity - 1), attempt \in 0..capacity] ==
            IF attempt >= capacity THEN x
            ELSE IF x.hash_table[offset + 1].key = 0 THEN InsertAt(offset)
            ELSE IF x.hash_table[offset + 1].key = key THEN AppendAt(offset)
            ELSE Probe[(offset + attempt + 1) % capacity, attempt + 1]
    IN  IF key = 0 THEN x ELSE Probe[Hash(key) % capacity, 0]

\* MinimizerIndex::MinimizerIndex(kmer_length, window_length, max_values_per_key)
MinimizerIndex(hash, max_values) ==
    /\ pc = "idle"
    /\ pc' = "index"
    /\ call' = [op |-> "MinimizerIndex", hash |-> hash,
                keys |-> 0, capacity |-> 2 ^ InitialCapacityBits,
                max_keys |-> (2 ^ InitialCapacityBits * 77) \div 100,
                values |-> 0, max_values |-> max_values,
                unique |-> 0, frequent |-> 0,
                hash_table |-> [i \in 1..(2 ^ InitialCapacityBits) |-> empty_cell],
                inserted |-> {}, calls |-> 0]
    /\ ret' = <<>>
    /\ UNCHANGED <<mapper, ompVars>>

\* one call of MinimizerIndex::insert(key, pos)
Insert(key, code) ==
    /\ pc = "index"
    /\ call.calls < MaxInserts
    /\ call' = [insert(call, key, code) EXCEPT
                    !.op = "insert",
                    !.inserted = IF key = 0 THEN @ ELSE @ \cup {key},
                    !.calls = @ + 1]
    /\ ret' = <<>>
    /\ UNCHANGED <<pc, mapper, ompVars>>

NextMinimizer ==
    \/ \E hash \in [1..MaxKeys -> 0..(2 ^ (InitialCapacityBits + 1) - 1)],
          max_values \in 1..2 :
          MinimizerIndex(hash, max_values)
    \/ \E key \in 0..MaxKeys, code \in 1..2 : Insert(key, code)
    \/ Return

SpecMinimizer == Init /\ [][NextMinimizer]_vars

\* C30: after any calls of insert, also those that rehash, every inserted
\* key has exactly one cell of hash_table, the probe for the key in the
\* table as it is comes to that cell before it comes to an empty cell, and
\* header.keys is the number of distinct keys inserted.
C30_OneCellPerKey ==
    pc = "index" =>
        LET Found[offset \in 0..(call.capacity - 1), attempt \in 0..call.capacity,
                  key \in 1..MaxKeys] ==
                IF attempt >= call.capacity THEN FALSE
                ELSE IF call.hash_table[offset + 1].key = 0 THEN FALSE
                ELSE IF call.hash_table[offset + 1].key = key THEN TRUE
                ELSE Found[(offset + attempt + 1) % call.capacity, attempt + 1, key]
        IN  /\ \A key \in call.inserted :
                  /\ Cardinality({i \in 1..call.capacity :
                                     call.hash_table[i].key = key}) = 1
                  /\ Found[call.hash[key] % call.capacity, 0, key]
            /\ call.keys = Cardinality(call.inserted)

====
